---- MODULE Spec2Model ----
(***************************************************************************)
(* RAGPrepTool: the processor registry / dispatcher, the per-format        *)
(* processors' result contract, archive packaging and the batch            *)
(* orchestrator (RAGConverter.process_folder).                             *)
(*                                                                         *)
(* Text is modelled as a sequence of one-character strings so that         *)
(* os.path.splitext, os.path.basename and str.lower are computed, not      *)
(* assumed.                                                                *)
(***************************************************************************)
EXTENDS Integers, Sequences, FiniteSets, TLC

VARIABLES
    processor_classes,   \* DocumentProcessorFactory._processor_classes (ordered list)
    pandoc_installed,    \* PandocUtils._pandoc_installed: "None" | "True" | "False"
    pandoc_present,      \* environment: does pypandoc find the pandoc executable
    created,             \* last create_processor call: [path, cls, classes], or NoCall
    zip_file,            \* the file at zip_filepath: "absent" | "old" | "partial" | "new"
    markdown_file,       \* the file at markdown_filepath: "absent" | "empty" | "text"
    metadata_file,       \* metadata_filepath: "None" | "absent" | "present"
    media_folder,        \* media_folder: [kind, files]
    zip_ret,             \* last create_zip_package call: [ret, before, faults]
    zip_entries,         \* namelist() of the archive at zip_filepath
    markdown_arcname,    \* markdown_arcname
    path_sep,            \* os.sep of the platform
    result,              \* last process() call: [cls, ext, env, called, md, error, raised]
    listing,             \* os.listdir(input_folder_path), in the order it answers
    suffix,              \* output_filename_suffix
    pc,                  \* where process_folder stands
    files,               \* files_to_process
    idx,                 \* i + 1: the 1-based position in files of the file being handled
    status,              \* the messages given to status_callback, in order
    progress,            \* the values given to progress_callback, as [num, den]
    archives,            \* output folder: zip_name_base -> [state, source, metadata]
    temp_dirs,           \* output folder: zip_name_base -> scratch directory
    writes,              \* what process_file_and_package wrote: [file, kind]
    cleanup_calls,       \* files whose scratch directory line 164 tried to delete
    outcomes,            \* per file: how its pipeline ended, "" while it has not
    prior,               \* names of the directories of the output folder before the call
    kept,                \* the directories of prior that are still there
    entered,             \* per file: its scratch directory as __enter__ left it
    contents,            \* per file: the md_content process() answered, "" while it has not
    ref_doc,             \* the image references of a Markdown text: [syntax, path]
    ref_env,             \* [exists, copy_fails]: the targets that are files, the copies that raise
    ref_info,            \* processed_images_info: placeholder path -> action
    ref_out,             \* the references of the returned text; <<>> where one was removed
    ref_done,            \* "no" | "markdown" | "images": what rewrote the references
    dl_caller,           \* who converts: "RAGConverter", or "direct" for convert_file called by itself
    dl_config,           \* the configuration dict handed to RAGConverter
    dl_options,          \* pandoc_options of PandocProcessor.process
    dl_timeout,          \* timeout of _predownload_external_images: <<>> (None) or <<seconds>>
    dl_hosts,            \* per unique image URL: does its host ever answer
    dl_requests,         \* per unique image URL: [state, timeout] of its requests.get
    dl_pc,               \* where the conversion of the HTML file stands
    nest_before,         \* the output directory before cleanup_nested_media_folders
    nest_env,            \* [fails, rmdir_fails]: the entries os.remove / shutil.move cannot touch
    nest_dir,            \* the output directory now
    nest_once,           \* the output directory after the first call
    nest_runs,           \* how many times cleanup_nested_media_folders has run
    img_config,          \* the configuration process_image is given
    img_file,            \* the image: [name, opens, loads, width, height, mode, saved_len]
    img_result,          \* what process_image returned, NotProcessed before the call
    sel_listing,         \* what os.listdir answers for the input folder
    sel_files,           \* files_to_process of _find_supported_files
    sel_handed,          \* how many of them were handed to create_processor
    sel_pc,              \* "idle" | "listed" | "found"
    cv_imgs,             \* the src of each img element of the HTML input
    cv_workers,          \* per unique external URL: the state of its download_single
    cv_out,              \* the src of each img element after the rewriting loop
    cv_copy,             \* the .modified.html copy: "absent" | "partial" | "written"
    cv_input,            \* input_file_to_use: "" | "original" | "modified"
    cv_tool,             \* how pypandoc.convert_file ended, "" before
    cv_ret,              \* what convert_file returned, "" before: "path" | "None"
    cv_faults,           \* the file operations that failed
    cv_pc,               \* where convert_file stands
    rm_plan,             \* what shutil.rmtree does on each attempt of the call
    rm_existed,          \* the directory was there at the call
    rm_exists,           \* the directory is there
    rm_log,              \* the sleeps and rmtree calls made, in order
    rm_ret,              \* what safe_remove_directory returned, "" before
    rm_pc,               \* where safe_remove_directory is
    pdf_plan,            \* what shutil.rmtree does on each call of the cleanup
    pdf_dir,             \* pdf_pymupdf_temp_raw_images is there
    pdf_md,              \* md_content of _extract_pdf_content, "" before
    pdf_log,             \* the sleeps and rmtree calls of the cleanup, in order
    pdf_ret,             \* what process answered, "" before
    pdf_pc,              \* where process is
    csv_plan,            \* what pd.read_csv does at each stage of the full parse, and what surrounds it
    csv_tried,           \* the stages tried, in order
    csv_strategy,        \* parsing_strategy, "" for None
    csv_md,              \* the Markdown process answered, "" before
    csv_meta,            \* the metadata process answered
    csv_pc,              \* where process is
    ppt_deck,            \* per slide of the file, the step of its processing that raises, if any
    ppt_opened,          \* Presentation(file_path) and the metadata were made
    ppt_done,            \* per slide gone through, how it was rendered
    ppt_md,              \* the Markdown process_powerpoint_file answered, "" before
    ppt_error,           \* the error key of the metadata answered, "" where missing
    ppt_pc               \* where process_powerpoint_file is

factoryVars == <<processor_classes, pandoc_installed, pandoc_present, created>>
zipVars == <<zip_file, markdown_file, metadata_file, media_folder, zip_ret,
             zip_entries, markdown_arcname, path_sep>>

procVars == <<result>>

batchVars == <<listing, suffix, pc, files, idx, status, progress, archives,
               temp_dirs, writes, cleanup_calls, outcomes, prior, kept, entered, contents>>

refVars == <<ref_doc, ref_env, ref_info, ref_out, ref_done>>

dlVars == <<dl_caller, dl_config, dl_options, dl_timeout, dl_hosts, dl_requests, dl_pc>>

nestVars == <<nest_before, nest_env, nest_dir, nest_once, nest_runs>>

imgVars == <<img_config, img_file, img_result>>

selVars == <<sel_listing, sel_files, sel_handed, sel_pc>>

cvVars == <<cv_imgs, cv_workers, cv_out, cv_copy, cv_input, cv_tool, cv_ret, cv_faults, cv_pc>>

rmVars == <<rm_plan, rm_existed, rm_exists, rm_log, rm_ret, rm_pc>>

pdfVars == <<pdf_plan, pdf_dir, pdf_md, pdf_log, pdf_ret, pdf_pc>>

csvVars == <<csv_plan, csv_tried, csv_strategy, csv_md, csv_meta, csv_pc>>

pptVars == <<ppt_deck, ppt_opened, ppt_done, ppt_md, ppt_error, ppt_pc>>

lateVars == <<selVars, cvVars, rmVars, pdfVars, csvVars, pptVars>>

\* the late groups other than one
selOthers == <<cvVars, rmVars, pdfVars, csvVars, pptVars>>
cvOthers == <<selVars, rmVars, pdfVars, csvVars, pptVars>>
rmOthers == <<selVars, cvVars, pdfVars, csvVars, pptVars>>
pdfOthers == <<selVars, cvVars, rmVars, csvVars, pptVars>>
csvOthers == <<selVars, cvVars, rmVars, pdfVars, pptVars>>
pptOthers == <<selVars, cvVars, rmVars, pdfVars, csvVars>>

utilVars == <<refVars, dlVars, nestVars, imgVars, lateVars>>

earlyVars == <<factoryVars, zipVars, procVars, batchVars, refVars, dlVars, nestVars, imgVars>>

vars == <<factoryVars, zipVars, procVars, batchVars, utilVars>>

\* no image reference is being rewritten
RefIdle ==
    /\ ref_doc = <<>>
    /\ ref_env = [exists |-> {}, copy_fails |-> {}]
    /\ ref_info = <<>>
    /\ ref_out = <<>>
    /\ ref_done = "no"

\* no HTML file is being converted
DownloadIdle ==
    /\ dl_caller = "nobody"
    /\ dl_config = <<>>
    /\ dl_options = <<>>
    /\ dl_timeout = <<>>
    /\ dl_hosts = <<>>
    /\ dl_requests = <<>>
    /\ dl_pc = "idle"

\* cleanup_nested_media_folders is not under study
NestIdle ==
    /\ nest_before = <<>>
    /\ nest_env = <<>>
    /\ nest_dir = <<>>
    /\ nest_once = <<>>
    /\ nest_runs = 0

\* process_image has not returned
NotProcessed == [action |-> "", bytes |-> "", format |-> "", data_uri |-> ""]

\* no image is being processed
ImgIdle ==
    /\ img_config = <<>>
    /\ img_file = <<>>
    /\ img_result = NotProcessed

\* no folder is being searched
SelIdle ==
    /\ sel_listing = <<>>
    /\ sel_files = <<>>
    /\ sel_handed = 0
    /\ sel_pc = "idle"

\* convert_file is not running
ConvertIdle ==
    /\ cv_imgs = <<>>
    /\ cv_workers = <<>>
    /\ cv_out = <<>>
    /\ cv_copy = "absent"
    /\ cv_input = ""
    /\ cv_tool = ""
    /\ cv_ret = ""
    /\ cv_faults = {}
    /\ cv_pc = "idle"

\* safe_remove_directory is not running
RemoveIdle ==
    /\ rm_plan = <<>>
    /\ rm_existed = FALSE
    /\ rm_exists = FALSE
    /\ rm_log = <<>>
    /\ rm_ret = ""
    /\ rm_pc = "idle"

\* PDFProcessor.process is not running
PdfIdle ==
    /\ pdf_plan = <<>>
    /\ pdf_dir = FALSE
    /\ pdf_md = ""
    /\ pdf_log = <<>>
    /\ pdf_ret = ""
    /\ pdf_pc = "idle"

\* no regular .csv file is being processed
CsvIdle ==
    /\ csv_plan = <<>>
    /\ csv_tried = <<>>
    /\ csv_strategy = ""
    /\ csv_md = ""
    /\ csv_meta = <<>>
    /\ csv_pc = "idle"

\* no presentation is being processed
PptIdle ==
    /\ ppt_deck = <<>>
    /\ ppt_opened = FALSE
    /\ ppt_done = <<>>
    /\ ppt_md = ""
    /\ ppt_error = ""
    /\ ppt_pc = "idle"

LateIdle ==
    /\ SelIdle
    /\ ConvertIdle
    /\ RemoveIdle
    /\ PdfIdle
    /\ CsvIdle
    /\ PptIdle

\* every late group but one is idle
LateIdleBut(g) ==
    /\ g # "sel" => SelIdle
    /\ g # "cv" => ConvertIdle
    /\ g # "rm" => RemoveIdle
    /\ g # "pdf" => PdfIdle
    /\ g # "csv" => CsvIdle
    /\ g # "ppt" => PptIdle

EarlyUtilIdle == RefIdle /\ DownloadIdle /\ NestIdle /\ ImgIdle

UtilIdle == EarlyUtilIdle /\ LateIdle

----------------------------------------------------------------------------
(* Characters and paths *)

UpperCase == <<"A","B","C","D","E","F","G","H","I","J","K","L","M",
               "N","O","P","Q","R","S","T","U","V","W","X","Y","Z">>
LowerCase == <<"a","b","c","d","e","f","g","h","i","j","k","l","m",
               "n","o","p","q","r","s","t","u","v","w","x","y","z">>

\* str.lower() on one character
LowerChar(c) ==
    IF \E i \in DOMAIN UpperCase : UpperCase[i] = c
    THEN LowerCase[CHOOSE i \in DOMAIN UpperCase : UpperCase[i] = c]
    ELSE c

\* str.lower()
lower(s) == [i \in DOMAIN s |-> LowerChar(s[i])]

\* str.rfind(c) + 1: the last position of c in s, 0 when absent
LastIndexOf(s, c) ==
    LET hits == {i \in DOMAIN s : s[i] = c}
    IN IF hits = {} THEN 0 ELSE CHOOSE i \in hits : \A j \in hits : j <= i

\* os.path.splitext: the extension starts at the last dot of the last path
\* component, unless only dots precede it in that component
splitext(p) ==
    LET sepIndex == LastIndexOf(p, "/")
        dotIndex == LastIndexOf(p, ".")
        nonDot == {k \in (sepIndex + 1)..(dotIndex - 1) : p[k] # "."}
    IN IF dotIndex > sepIndex /\ nonDot # {}
       THEN <<SubSeq(p, 1, dotIndex - 1), SubSeq(p, dotIndex, Len(p))>>
       ELSE <<p, <<>>>>

\* os.path.basename
basename(p) == SubSeq(p, LastIndexOf(p, "/") + 1, Len(p))

\* os.path.join(folder, name)
join(folder, name) == folder \o <<"/">> \o name

\* the folder the batch reads; its name holds a dot
InputFolder == <<"i","n",".","d">>

----------------------------------------------------------------------------
(* Extensions declared by the processor classes *)

EXT_PDF == <<".","p","d","f">>
EXT_MD == <<".","m","d">>
EXT_MARKDOWN == <<".","m","a","r","k","d","o","w","n">>
EXT_PPTX == <<".","p","p","t","x">>
EXT_PPT == <<".","p","p","t">>
EXT_CSV == <<".","c","s","v">>
EXT_XLSX == <<".","x","l","s","x">>
EXT_XLS == <<".","x","l","s">>
EXT_TSV == <<".","t","s","v">>
EXT_TXT == <<".","t","x","t">>
EXT_JSON == <<".","j","s","o","n">>
EXT_PY == <<".","p","y">>
EXT_JS == <<".","j","s">>
EXT_JAVA == <<".","j","a","v","a">>
EXT_CS == <<".","c","s">>
EXT_C == <<".","c">>
EXT_CPP == <<".","c","p","p">>
EXT_GO == <<".","g","o">>
EXT_RB == <<".","r","b">>
EXT_PHP == <<".","p","h","p">>
EXT_RS == <<".","r","s">>
EXT_KT == <<".","k","t">>
EXT_SWIFT == <<".","s","w","i","f","t">>
EXT_DOCX == <<".","d","o","c","x">>
EXT_DOC == <<".","d","o","c">>
EXT_RTF == <<".","r","t","f">>
EXT_ODT == <<".","o","d","t">>
EXT_EPUB == <<".","e","p","u","b">>
EXT_HTML == <<".","h","t","m","l">>
EXT_HTM == <<".","h","t","m">>
EXT_ORG == <<".","o","r","g">>
EXT_TEX == <<".","t","e","x">>
EXT_WIKI == <<".","w","i","k","i">>
EXT_XML == <<".","x","m","l">>
EXT_OPML == <<".","o","p","m","l">>
EXT_DUMMY == <<".","d","u","m","m","y">>

\* the code files SimpleProcessor.FILE_TYPES is built from
CODE_EXTENSIONS == <<EXT_PY, EXT_JS, EXT_JAVA, EXT_CS, EXT_C, EXT_CPP, EXT_GO,
                     EXT_RB, EXT_PHP, EXT_RS, EXT_KT, EXT_SWIFT>>

\* SimpleProcessor.FILE_TYPES.keys()
FILE_TYPES == <<EXT_TXT, EXT_JSON>> \o CODE_EXTENSIONS

\* the registry as the class attribute initialises it
DefaultProcessorClasses ==
    <<"PDFProcessor", "MarkdownProcessor", "PowerPointProcessor",
      "ExcelCsvProcessor", "SimpleProcessor", "PandocProcessor">>

\* classes a caller may hand to register_processor: the test suite's
\* DummyProcessor, two classes that claim extensions already claimed, and a
\* class that is registered already
RegistrableClasses ==
    {"DummyProcessor", "AltPdfProcessor", "AltTextProcessor", "PDFProcessor"}

\* <class>.get_supported_extensions()
get_supported_extensions(cls) ==
    CASE cls = "PDFProcessor" -> <<EXT_PDF>>
      [] cls = "MarkdownProcessor" -> <<EXT_MD, EXT_MARKDOWN>>
      [] cls = "PowerPointProcessor" -> <<EXT_PPTX, EXT_PPT>>
      [] cls = "ExcelCsvProcessor" -> <<EXT_CSV, EXT_XLSX, EXT_XLS, EXT_TSV>>
      [] cls = "SimpleProcessor" -> FILE_TYPES
      [] cls = "PandocProcessor" ->
            <<EXT_DOCX, EXT_DOC, EXT_RTF, EXT_ODT, EXT_EPUB,
              EXT_HTML, EXT_HTM, EXT_ORG, EXT_TEX, EXT_WIKI>>
      [] cls = "DummyProcessor" -> <<EXT_DUMMY>>
      [] cls = "AltPdfProcessor" -> <<EXT_PDF>>
      [] cls = "AltTextProcessor" -> <<EXT_TXT, EXT_DOCX>>
      [] OTHER -> <<>>

----------------------------------------------------------------------------
(* PandocUtils *)

\* PandocUtils.check_installed_locally: [value, cache]; the probe runs only
\* while the cache is None
check_installed_locally(cache, present) ==
    IF cache # "None"
    THEN [value |-> (cache = "True"), cache |-> cache]
    ELSE [value |-> present, cache |-> IF present THEN "True" ELSE "False"]

supported_by_pandoc_for_us ==
    {EXT_DOCX, EXT_ODT, EXT_EPUB, EXT_HTML, EXT_HTM, EXT_RTF,
     EXT_TEX, EXT_XML, EXT_CSV, EXT_TSV, EXT_OPML, EXT_ORG}

\* PandocUtils.is_supported_format: [value, cache]
is_supported_format(file_path, cache, present) ==
    LET chk == check_installed_locally(cache, present)
    IN IF ~chk.value
       THEN [value |-> FALSE, cache |-> chk.cache]
       ELSE [value |-> lower(splitext(file_path)[2]) \in supported_by_pandoc_for_us,
             cache |-> chk.cache]

----------------------------------------------------------------------------
(* DocumentProcessorFactory *)

\* extensions_map[ext] = processor_class, keeping an earlier entry
SetItemIfAbsent(map, ext, cls) ==
    IF ext \in DOMAIN map THEN map
    ELSE [x \in DOMAIN map \cup {ext} |-> IF x = ext THEN cls ELSE map[x]]

\* extensions_map[ext] = processor_class
SetItem(map, ext, cls) ==
    [x \in DOMAIN map \cup {ext} |-> IF x = ext THEN cls ELSE map[x]]

RECURSIVE CollectExtensions(_, _, _)
\* the inner loop of get_all_supported_extensions
CollectExtensions(exts, cls, map) ==
    IF exts = <<>> THEN map
    ELSE CollectExtensions(Tail(exts), cls, SetItem(map, Head(exts), cls))

RECURSIVE CollectClasses(_, _)
\* the outer loop of get_all_supported_extensions
CollectClasses(classes, map) ==
    IF classes = <<>> THEN map
    ELSE CollectClasses(Tail(classes),
            CollectExtensions(get_supported_extensions(Head(classes)), Head(classes), map))

\* DocumentProcessorFactory.get_all_supported_extensions
get_all_supported_extensions(classes) == CollectClasses(classes, <<>>)

\* create_processor without lower-casing the extension
create_processor_case_sensitive(file_path, classes, cache, present) ==
    LET ext == splitext(file_path)[2]
        extensions_map == get_all_supported_extensions(classes)
        pandoc == is_supported_format(file_path, cache, present)
    IN IF ext \in DOMAIN extensions_map
       THEN [cls |-> extensions_map[ext], cache |-> cache]
       ELSE IF pandoc.value
            THEN [cls |-> "PandocProcessor", cache |-> pandoc.cache]
            ELSE [cls |-> "SimpleProcessor", cache |-> pandoc.cache]

\* DocumentProcessorFactory.create_processor: [cls, cache]
create_processor(file_path, classes, cache, present) ==
    LET ext == lower(splitext(file_path)[2])
        extensions_map == get_all_supported_extensions(classes)
        pandoc == is_supported_format(file_path, cache, present)
    IN IF ext \in DOMAIN extensions_map
       THEN [cls |-> extensions_map[ext], cache |-> cache]
       ELSE IF pandoc.value
            THEN [cls |-> "PandocProcessor", cache |-> pandoc.cache]
            ELSE [cls |-> "SimpleProcessor", cache |-> pandoc.cache]

\* DocumentProcessorFactory.register_processor
register_processor(classes, processor_class) ==
    IF \E i \in DOMAIN classes : classes[i] = processor_class
    THEN classes
    ELSE Append(classes, processor_class)

\* no create_processor call was made yet
NoCall == [path |-> <<>>, cls |-> "NoCall", classes |-> <<>>]

----------------------------------------------------------------------------
(* FileUtils.create_zip_package *)

\* most files a media folder holds
MaxMediaFiles == 2

NoFaults == [open_fails |-> FALSE, fail_at |-> 0, remove_fails |-> FALSE]

\* what the environment may do to one call: ZipFile() raises, the fail_at-th
\* zf.write raises, os.remove raises
ZipFaults ==
    [open_fails : BOOLEAN, fail_at : 0..(MaxMediaFiles + 2), remove_fails : BOOLEAN]

MediaFolders ==
    {[kind |-> k, files |-> 0] : k \in {"None", "absent", "file"}}
        \cup {[kind |-> "dir", files |-> n] : n \in 0..MaxMediaFiles}

\* the zf.write calls a run without error makes: the Markdown file, the
\* metadata file when given and present, every file under the media folder
ZipWrites(metadata, media) ==
    1 + (IF metadata = "present" THEN 1 ELSE 0)
      + (IF media.kind = "dir" THEN media.files ELSE 0)

\* the relative path, as its components, of the k-th file os.walk finds
\* under the media folder: files directly in it and files in a subfolder
MediaFile(k) ==
    LET name == <<"f", ToString(k), ".", "p", "n", "g">>
    IN IF k % 2 = 1 THEN <<name>> ELSE << <<"s","u","b">>, name >>

RECURSIVE relpath(_, _)
\* os.path.relpath(full_path, media_folder): the components joined by os.sep
relpath(components, sep) ==
    IF Len(components) = 1 THEN Head(components)
    ELSE Head(components) \o <<sep>> \o relpath(Tail(components), sep)

\* str.replace of one character
replace(str, old, new) == [k \in DOMAIN str |-> IF str[k] = old THEN new ELSE str[k]]

MEDIA == <<"m","e","d","i","a">>
METADATA_JSON == <<"m","e","t","a","d","a","t","a",".","j","s","o","n">>

\* the arcname a media file is written under, lines 172-173
media_arcname(components, sep) ==
    replace(MEDIA \o <<sep>> \o relpath(components, sep), "\\", "/")

\* ZipFile opened in mode 'a': the entries of an archive already at the path stay
namelist_append(old_entries, arcname, metadata, media, sep) ==
    old_entries
      \o <<arcname>>
      \o (IF metadata = "present" THEN <<METADATA_JSON>> ELSE <<>>)
      \o [k \in 1..(IF media.kind = "dir" THEN media.files ELSE 0) |->
             media_arcname(MediaFile(k), sep)]

\* the entries of the archive after the with block of lines 158-176 ended
\* without error: mode 'w' starts from an empty archive
namelist(old_entries, arcname, metadata, media, sep) ==
    <<arcname>>
      \o (IF metadata = "present" THEN <<METADATA_JSON>> ELSE <<>>)
      \o [k \in 1..(IF media.kind = "dir" THEN media.files ELSE 0) |->
             media_arcname(MediaFile(k), sep)]

\* create_zip_package testing only that the Markdown file exists
create_zip_package_no_size_check(before, markdown, metadata, media, faults) ==
    IF markdown = "absent"
    THEN [ret |-> "False", zip |-> before, entries |-> 0]
    ELSE LET n_writes == ZipWrites(metadata, media)
             failed == faults.open_fails \/ faults.fail_at \in 1..n_writes
             at_error == IF faults.open_fails THEN before ELSE "partial"
         IN IF ~failed
            THEN [ret |-> "True", zip |-> "new", entries |-> n_writes]
            ELSE IF at_error = "absent"
                 THEN [ret |-> "False", zip |-> "absent", entries |-> 0]
                 ELSE IF faults.remove_fails
                      THEN [ret |-> "raise", zip |-> at_error, entries |-> 0]
                      ELSE [ret |-> "False", zip |-> "absent", entries |-> 0]

\* the except branch without the os.remove of the partial archive
create_zip_package_keep_partial(before, markdown, metadata, media, faults) ==
    IF markdown \in {"absent", "empty"}
    THEN [ret |-> "False", zip |-> before, entries |-> 0]
    ELSE LET n_writes == ZipWrites(metadata, media)
             failed == faults.open_fails \/ faults.fail_at \in 1..n_writes
             at_error == IF faults.open_fails THEN before ELSE "partial"
         IN IF ~failed
            THEN [ret |-> "True", zip |-> "new", entries |-> n_writes]
            ELSE [ret |-> "False", zip |-> at_error, entries |-> 0]

\* FileUtils.create_zip_package: [ret, zip, entries]; ret is "True", "False"
\* or "raise" (os.remove raising inside the except branch)
create_zip_package(before, markdown, metadata, media, faults) ==
    IF markdown \in {"absent", "empty"}
    THEN [ret |-> "False", zip |-> before, entries |-> 0]
    ELSE LET n_writes == ZipWrites(metadata, media)
             failed == faults.open_fails \/ faults.fail_at \in 1..n_writes
             at_error == IF faults.open_fails THEN before ELSE "partial"
         IN IF ~failed
            THEN [ret |-> "True", zip |-> "new", entries |-> n_writes]
            ELSE IF at_error = "absent"
                 THEN [ret |-> "False", zip |-> "absent", entries |-> 0]
                 ELSE IF faults.remove_fails
                      THEN [ret |-> "raise", zip |-> at_error, entries |-> 0]
                      ELSE [ret |-> "False", zip |-> "absent", entries |-> 0]

NoZipCall == [ret |-> "NoCall", before |-> "absent", faults |-> NoFaults]

\* the archive variables while no archive is being built
ZipIdle ==
    /\ zip_file = "absent"
    /\ markdown_file = "absent"
    /\ metadata_file = "None"
    /\ media_folder = [kind |-> "None", files |-> 0]
    /\ zip_ret = NoZipCall
    /\ zip_entries = <<>>
    /\ markdown_arcname = <<>>
    /\ path_sep = "/"

----------------------------------------------------------------------------
(* The processors' process(): (markdown_or_None, metadata) *)

\* what one process() call meets: a missing optional library, os.makedirs
\* raising, the read / parse / conversion raising, the later steps raising,
\* the text obtained, whether a .json file parses, how a CSV file parses
ProcEnvs ==
    [import_fails : BOOLEAN, makedirs_fails : BOOLEAN, read_fails : BOOLEAN,
     post_fails : BOOLEAN, content : {"empty", "text"}, json_valid : BOOLEAN,
     csv : {"bundle", "no_candidate", "all_fail", "empty_df", "ok"}]

\* return md_content, metadata
Ok(md) == [md |-> md, error |-> FALSE, raised |-> FALSE]
\* return content, {..., "error": ...}
OkWithError(md) == [md |-> md, error |-> TRUE, raised |-> FALSE]
\* return None, {"error": ..., ...}
Failed == [md |-> "None", error |-> TRUE, raised |-> FALSE]
\* an exception leaves process()
Raised == [md |-> "None", error |-> FALSE, raised |-> TRUE]

\* PDFProcessor.process
PdfProcess(ext, env) ==
    IF env.makedirs_fails THEN Raised
    ELSE IF env.read_fails THEN Failed
    ELSE IF env.content = "empty" THEN Failed
    ELSE IF env.post_fails THEN Failed
    ELSE Ok("text")

\* MarkdownProcessor.process
MarkdownProcess(ext, env) ==
    IF env.read_fails THEN Failed
    ELSE IF env.post_fails THEN Failed
    ELSE Ok(env.content)

\* PowerPointProcessor.process / process_powerpoint_file
PowerPointProcess(ext, env) ==
    IF env.import_fails THEN Failed
    ELSE IF env.makedirs_fails THEN Raised
    ELSE IF env.read_fails \/ env.post_fails THEN Failed
    ELSE Ok(env.content)

\* ExcelCsvProcessor._process_regular_csv_file; "raise" is caught by process
RegularCsv(env) ==
    IF env.csv = "no_candidate" THEN Failed
    ELSE IF env.csv = "all_fail" THEN OkWithError("text")
    ELSE IF env.csv = "empty_df" THEN OkWithError("text")
    ELSE IF env.post_fails THEN Failed
    ELSE Ok("text")

\* ExcelCsvProcessor.process
ExcelCsvProcess(ext, env) ==
    IF env.import_fails THEN Failed
    ELSE IF ext = EXT_CSV
         THEN IF env.csv = "bundle"
              THEN IF env.read_fails \/ env.post_fails THEN Failed ELSE Ok("text")
              ELSE RegularCsv(env)
         ELSE IF ext \in {EXT_TSV, EXT_XLSX, EXT_XLS}
              THEN IF env.read_fails \/ env.post_fails THEN Failed ELSE Ok("text")
              ELSE Failed

\* SimpleProcessor.process: the formatter of .json raises on invalid JSON
\* (an empty file is invalid JSON) and the error_handler output is returned
SimpleProcess(ext, env) ==
    LET file_type == IF \E k \in DOMAIN FILE_TYPES : FILE_TYPES[k] = ext
                     THEN ext ELSE EXT_TXT
    IN IF env.read_fails THEN Failed
       ELSE IF file_type = EXT_TXT THEN Ok(env.content)
       ELSE IF file_type = EXT_JSON
            THEN IF env.json_valid /\ env.content = "text"
                 THEN Ok("text") ELSE OkWithError("text")
            ELSE Ok("text")

\* PandocProcessor.process with the error key left out of a failed conversion
PandocProcessNoErrorKey(ext, env) ==
    IF env.read_fails THEN Failed
    ELSE IF env.post_fails THEN [Failed EXCEPT !.error = FALSE]
    ELSE Ok(env.content)

\* PandocProcessor.process: convert_file raising, convert_file returning
\* None, or the converted Markdown read back
PandocProcess(ext, env) ==
    IF env.read_fails THEN Failed
    ELSE IF env.post_fails THEN Failed
    ELSE Ok(env.content)

\* processor.process(file_path, ...) of the class create_processor returned
Process(cls, ext, env) ==
    CASE cls = "PDFProcessor" -> PdfProcess(ext, env)
      [] cls = "MarkdownProcessor" -> MarkdownProcess(ext, env)
      [] cls = "PowerPointProcessor" -> PowerPointProcess(ext, env)
      [] cls = "ExcelCsvProcessor" -> ExcelCsvProcess(ext, env)
      [] cls = "SimpleProcessor" -> SimpleProcess(ext, env)
      [] cls = "PandocProcessor" -> PandocProcess(ext, env)

\* the environment of a call that meets no fault
PlainEnv ==
    [import_fails |-> FALSE, makedirs_fails |-> FALSE, read_fails |-> FALSE,
     post_fails |-> FALSE, content |-> "text", json_valid |-> TRUE, csv |-> "ok"]

NoResult ==
    [cls |-> "NoCall", ext |-> <<>>, env |-> PlainEnv, called |-> FALSE,
     md |-> "None", error |-> FALSE, raised |-> FALSE]

ProcIdle == result = NoResult

----------------------------------------------------------------------------
(* file_utils.safe_remove_directory and the scratch directory *)

\* safe_remove_directory(max_attempts=3)
max_attempts == 3

\* what shutil.rmtree does over the attempts: it raises PermissionError on
\* the first perm_errors attempts, and then either succeeds or raises another
\* exception
RemoveEnvs == [perm_errors : 0..max_attempts, other_error : BOOLEAN]

\* safe_remove_directory: [ret, exists, attempts]
safe_remove_directory(exists, env) ==
    IF ~exists THEN [ret |-> TRUE, exists |-> FALSE, attempts |-> 0]
    ELSE IF env.perm_errors >= max_attempts
         THEN [ret |-> FALSE, exists |-> TRUE, attempts |-> max_attempts]
         ELSE IF env.other_error
              THEN [ret |-> FALSE, exists |-> TRUE, attempts |-> env.perm_errors + 1]
              ELSE [ret |-> TRUE, exists |-> FALSE, attempts |-> env.perm_errors + 1]

\* the ending of the name of a scratch directory
TEMP_SUFFIX == <<"_","t","e","m","p">>

\* temp_dir_path of line 140, as a name in the output folder
TempDirName(zip_name_base) == zip_name_base \o TEMP_SUFFIX

\* str.startswith
startswith(s, t) ==
    /\ Len(s) >= Len(t)
    /\ SubSeq(s, 1, Len(t)) = t

\* str.endswith
endswith(s, t) ==
    /\ Len(s) >= Len(t)
    /\ SubSeq(s, Len(s) - Len(t) + 1, Len(s)) = t

\* a scratch directory that does not exist; foreign: it holds entries that
\* were there before process_folder was called
NoDir == [exists |-> FALSE, md |-> "absent", metadata |-> "absent", foreign |-> FALSE]

\* a directory that was in the output folder before the call
PriorDir == [exists |-> TRUE, md |-> "absent", metadata |-> "absent", foreign |-> TRUE]

\* TempDirectory.__enter__ and the os.makedirs of its media folder: an
\* existing directory is kept as it is
EnterTempDirectory(dir) == IF dir.exists THEN dir ELSE [NoDir EXCEPT !.exists = TRUE]

----------------------------------------------------------------------------
(* RAGConverter.process_file_and_package *)

\* what the writes of one file meet: open/write of the Markdown file raising,
\* FileUtils.save_metadata: [ret, file]; open() raising leaves the file as
\* it was, json.dump raising leaves what was written before the error
save_metadata(before, how) ==
    CASE how = "ok" -> [ret |-> TRUE, file |-> "present"]
      [] how = "open_fails" -> [ret |-> FALSE, file |-> before]
      [] how = "dump_fails" -> [ret |-> FALSE, file |-> "truncated"]

\* the Markdown write raising, how the metadata write goes, the media files
\* the processor left, the faults of the archive build
PackageEnvs ==
    [md_write_fails : BOOLEAN, metadata_write : {"ok", "open_fails", "dump_fails"},
     media_files : 0..MaxMediaFiles, zip : ZipFaults]

\* what the archive just built holds as metadata.json: the whole mapping, no
\* entry, a truncated file, or the file an earlier use of the directory left
PackedMetadata(saved, how) ==
    IF saved.ret THEN "complete"
    ELSE IF saved.file = "absent" THEN "none"
    ELSE IF how = "dump_fails" THEN "truncated"
    ELSE "stale"

\* lines 79-103 of process_file_and_package: the writes and the archive build
Package(md, dir, zip_before, env) ==
    IF env.md_write_fails
    THEN [ret |-> "False", told |-> FALSE, dir |-> dir, zip |-> zip_before,
          wrote |-> {}, packed |-> "none"]
    ELSE LET saved == save_metadata(dir.metadata, env.metadata_write)
             z == create_zip_package(zip_before, md,
                      IF saved.file = "absent" THEN "absent" ELSE "present",
                      [kind |-> "dir", files |-> env.media_files], env.zip)
             \* this call left an archive of its own at the path: a whole
             \* one, or a partial one that os.remove could not delete
             built == z.ret = "True" \/ (z.zip = "partial" /\ ~env.zip.open_fails)
         IN [ret |-> z.ret, told |-> FALSE,
             dir |-> [dir EXCEPT !.md = md, !.metadata = saved.file],
             zip |-> z.zip,
             wrote |-> {"md"}
                       \cup (IF env.metadata_write = "open_fails" THEN {} ELSE {"metadata"})
                       \cup (IF built THEN {"zip"} ELSE {}),
             packed |-> IF z.ret = "True"
                        THEN PackedMetadata(saved, env.metadata_write)
                        ELSE "none"]

\* process_file_and_package going on to write when md_content is None
process_file_and_package_no_null_check(r, dir, zip_before, env) ==
    IF r.raised
    THEN [ret |-> "raise", told |-> FALSE, dir |-> dir, zip |-> zip_before,
          wrote |-> {}, packed |-> "none"]
    ELSE Package(IF r.md = "None" THEN "empty" ELSE r.md, dir, zip_before, env)

\* RAGConverter.process_file_and_package after create_processor chose the
\* processor and process() answered r: [ret, told, dir, zip, wrote, packed];
\* told is the "Failed to process <name>." message of line 76
process_file_and_package(r, dir, zip_before, env) ==
    IF r.raised
    THEN [ret |-> "raise", told |-> FALSE, dir |-> dir, zip |-> zip_before,
          wrote |-> {}, packed |-> "none"]
    ELSE IF r.md = "None"
    THEN [ret |-> "False", told |-> TRUE, dir |-> dir, zip |-> zip_before,
          wrote |-> {}, packed |-> "none"]
    ELSE Package(r.md, dir, zip_before, env)

----------------------------------------------------------------------------
(* RAGConverter.process_folder *)

\* most entries of the input folder
MaxFiles == 2

\* the entries the input folder may hold: a.txt and a.pdf share their base
\* name, c.xml is eligible only through the external converter
BatchNames ==
    { <<"a",".","t","x","t">>,
      <<"a",".","p","d","f">>,
      <<"c",".","x","m","l">> }

Suffixes == { <<>>, <<"v","2">> }

\* the directories the output folder may hold before the call: none, or
\* one whose name ends like a scratch directory (it is the scratch directory
\* of a.* when there is no suffix) next to one whose name does not
PriorDirSets ==
    { {},
      { <<"a","_","t","e","m","p">>, <<"k","e","e","p">> } }

\* the order os.listdir answers in
ListdirOrder ==
    << <<"a",".","t","x","t">>, <<"a",".","p","d","f">>, <<"c",".","x","m","l">> >>

\* what os.listdir may answer: some of the entries, in that order
Listings ==
    UNION {{l \in [1..n -> BatchNames] :
               \A a, b \in 1..n :
                  a < b => \E x, y \in DOMAIN ListdirOrder :
                              /\ ListdirOrder[x] = l[a]
                              /\ ListdirOrder[y] = l[b]
                              /\ x < y} :
           n \in 0..MaxFiles}

\* BaseDocumentProcessor._is_common_temp_file(file_path)
is_common_temp_file(file_path) ==
    LET filename == basename(file_path)
    IN \/ startswith(filename, <<"~","$">>)
       \/ startswith(filename, <<".","~">>)
       \/ endswith(filename, <<".","t","m","p">>)
       \/ endswith(filename, <<".","b","a","k">>)
       \/ lower(filename) \in { <<"t","h","u","m","b","s",".","d","b">>,
                                <<"d","e","s","k","t","o","p",".","i","n","i">>,
                                <<".","d","s","_","s","t","o","r","e">> }

RECURSIVE FilterSupported(_, _, _)
\* the loop of _find_supported_files
FilterSupported(names, supported_exts, pandoc_available) ==
    IF names = <<>> THEN <<>>
    ELSE LET f_path == join(InputFolder, Head(names))
             ext == lower(splitext(Head(names))[2])
             rest == FilterSupported(Tail(names), supported_exts, pandoc_available)
         IN IF ext \in DOMAIN supported_exts THEN <<f_path>> \o rest
            ELSE IF pandoc_available
                    /\ is_supported_format(f_path, IF pandoc_available THEN "True" ELSE "False",
                                           pandoc_available).value
                 THEN <<f_path>> \o rest
                 ELSE rest

\* RAGConverter._find_supported_files: [files, cache]
find_supported_files(names, classes, cache, present) ==
    LET chk == check_installed_locally(cache, present)
    IN [files |-> FilterSupported(names, get_all_supported_extensions(classes), chk.value),
        cache |-> chk.cache]

\* zip_name_base of line 138
ZipNameBase(file_path, sfx) ==
    LET base_name_no_ext == splitext(basename(file_path))[1]
    IN IF sfx # <<>> THEN base_name_no_ext \o <<"_">> \o sfx ELSE base_name_no_ext

ZipBases(fs, sfx) == {ZipNameBase(fs[k], sfx) : k \in DOMAIN fs}

Msg(m, k) == [msg |-> m, file |-> k]

BatchIdle ==
    /\ listing = <<>>
    /\ suffix = <<>>
    /\ pc = "idle"
    /\ files = <<>>
    /\ idx = 0
    /\ status = <<>>
    /\ progress = <<>>
    /\ archives = <<>>
    /\ temp_dirs = <<>>
    /\ writes = {}
    /\ cleanup_calls = {}
    /\ outcomes = <<>>
    /\ prior = {}
    /\ kept = {}
    /\ entered = <<>>
    /\ contents = <<>>

\* a RAGConverter was constructed (its __init__ probes for pandoc) and
\* process_folder is about to be called on a folder and an output folder
Init ==
    /\ processor_classes = DefaultProcessorClasses
    /\ pandoc_present \in BOOLEAN
    /\ pandoc_installed = check_installed_locally("None", pandoc_present).cache
    /\ created = NoCall
    /\ ZipIdle
    /\ ProcIdle
    /\ listing \in Listings
    /\ suffix \in Suffixes
    /\ pc = "start"
    /\ files = <<>>
    /\ idx = 0
    /\ status = <<>>
    /\ progress = <<>>
    /\ archives = <<>>
    /\ temp_dirs = <<>>
    /\ writes = {}
    /\ cleanup_calls = {}
    /\ outcomes = <<>>
    /\ prior \in PriorDirSets
    /\ kept = prior
    /\ entered = <<>>
    /\ contents = <<>>
    /\ UtilIdle

\* process_folder, lines 114-124: no supported file ends the call
FindFiles ==
    /\ pc = "start"
    /\ LET found == find_supported_files(listing, processor_classes,
                                         pandoc_installed, pandoc_present)
       IN /\ files' = found.files
          /\ pandoc_installed' = found.cache
          /\ IF found.files = <<>>
             THEN /\ status' = Append(status, Msg("none_found", 0))
                  /\ pc' = "returned"
                  /\ idx' = 0
                  /\ UNCHANGED <<archives, temp_dirs, outcomes, entered, contents>>
             ELSE /\ status' = Append(status, Msg("found", Len(found.files)))
                  /\ pc' = "file"
                  /\ idx' = 1
                  /\ archives' = [b \in ZipBases(found.files, suffix) |->
                                     [state |-> "absent", source |-> 0, metadata |-> "none"]]
                  /\ temp_dirs' = [b \in ZipBases(found.files, suffix) |->
                                      IF TempDirName(b) \in prior THEN PriorDir ELSE NoDir]
                  /\ outcomes' = [k \in DOMAIN found.files |-> ""]
                  /\ entered' = [k \in DOMAIN found.files |-> NoDir]
                  /\ contents' = [k \in DOMAIN found.files |-> ""]
    /\ UNCHANGED <<processor_classes, pandoc_present, created, zipVars, procVars, utilVars>>
    /\ UNCHANGED <<listing, suffix, progress, writes, cleanup_calls, prior, kept>>

\* how the pipeline of a file ended
Outcome(r, p) ==
    IF p.ret = "raise" THEN "raised"
    ELSE IF r.md = "None" THEN "null"
    ELSE IF p.ret = "True" THEN "packaged"
    ELSE IF p.wrote = {} THEN "md_write_failed"
    ELSE "packaging_failed"

\* the answers process() can give, per class and extension
ProcessResults ==
    [cls \in {DefaultProcessorClasses[k] : k \in DOMAIN DefaultProcessorClasses},
     ext \in {lower(splitext(n)[2]) : n \in BatchNames} |->
        {Process(cls, ext, env) : env \in ProcEnvs}]

\* the states a scratch directory can be in
DirStates ==
    {NoDir} \cup [exists : {TRUE}, md : {"absent", "empty", "text"},
                  metadata : {"absent", "present", "truncated"}, foreign : BOOLEAN]

\* what process_file_and_package can do, per answer of process(), scratch
\* directory and state of the archive path
PackageResults ==
    [r \in {Ok("text"), Ok("empty"), OkWithError("text"), Failed, Raised},
     dir \in DirStates, zip_before \in {"absent", "old", "partial", "new"} |->
        {process_file_and_package(r, dir, zip_before, env) : env \in PackageEnvs}]

\* process_folder, lines 129-161: one file inside its TempDirectory block;
\* an exception leaves the block and process_folder
ProcessFile ==
    /\ pc = "file"
    /\ LET file_path == files[idx]
           base == ZipNameBase(file_path, suffix)
           made == create_processor(file_path, processor_classes,
                                    pandoc_installed, pandoc_present)
           dir == EnterTempDirectory(temp_dirs[base])
       IN \E r \in ProcessResults[made.cls, lower(splitext(file_path)[2])] :
          \E p \in PackageResults[r, dir, archives[base].state] :
             /\ created' = [path |-> file_path, cls |-> made.cls,
                            classes |-> processor_classes]
             /\ pandoc_installed' = made.cache
             /\ temp_dirs' = [temp_dirs EXCEPT ![base] = p.dir]
             /\ entered' = [entered EXCEPT ![idx] = dir]
             /\ contents' = [contents EXCEPT ![idx] = r.md]
             /\ archives' = [archives EXCEPT ![base] =
                                IF "zip" \in p.wrote
                                THEN [state |-> p.zip, source |-> idx, metadata |-> p.packed]
                                ELSE IF p.zip = "absent"
                                THEN [state |-> "absent", source |-> 0, metadata |-> "none"]
                                ELSE @]
             /\ writes' = writes \cup {[file |-> idx, kind |-> w] : w \in p.wrote}
             /\ outcomes' = [outcomes EXCEPT ![idx] = Outcome(r, p)]
             /\ status' = status \o <<Msg("starting", idx)>>
                              \o (IF p.told THEN <<Msg("failed_to_process", idx)>> ELSE <<>>)
                              \o (IF p.ret = "True" THEN <<Msg("success", idx)>>
                                  ELSE IF p.ret = "False" THEN <<Msg("failed", idx)>>
                                  ELSE <<>>)
             /\ pc' = IF p.ret = "raise" THEN "aborted" ELSE "cleanup"
    /\ UNCHANGED <<processor_classes, pandoc_present, zipVars, procVars, utilVars>>
    /\ UNCHANGED <<listing, suffix, files, idx, progress, cleanup_calls, prior, kept>>

\* whether the directory is still there after safe_remove_directory
StillThere(exists) == {safe_remove_directory(exists, env).exists : env \in RemoveEnvs}

\* process_folder, lines 163-167: delete the scratch directory, report progress
CleanupFile ==
    /\ pc = "cleanup"
    /\ LET base == ZipNameBase(files[idx], suffix)
       IN \E there \in StillThere(temp_dirs[base].exists) :
             /\ temp_dirs' = [temp_dirs EXCEPT ![base] = IF there THEN @ ELSE NoDir]
             /\ kept' = IF there THEN kept ELSE kept \ {TempDirName(base)}
    /\ cleanup_calls' = cleanup_calls \cup {idx}
    /\ progress' = Append(progress, [num |-> idx * 100, den |-> Len(files)])
    /\ IF idx < Len(files)
       THEN idx' = idx + 1 /\ pc' = "file"
       ELSE idx' = idx /\ pc' = "final"
    /\ UNCHANGED <<factoryVars, zipVars, procVars, utilVars>>
    /\ UNCHANGED <<listing, suffix, files, status, archives, writes, outcomes,
                   prior, entered, contents>>

\* RAGConverter._cleanup_remaining_temp_dirs: safe_remove_directory on every
\* directory of the output folder whose name ends in _temp: the scratch
\* directories of the batch (dirs) and the other directories (others);
\* the answer is what is left of both
cleanup_remaining_temp_dirs(dirs, others) ==
    LET swept == {d \in others : endswith(d, TEMP_SUFFIX)}
    IN {[dirs |-> [b \in DOMAIN dirs |-> IF there[b] THEN dirs[b] ELSE NoDir],
         others |-> others \ gone] :
           there \in {f \in [DOMAIN dirs -> BOOLEAN] :
                         \A b \in DOMAIN dirs : f[b] \in StillThere(dirs[b].exists)},
           gone \in {g \in SUBSET swept : \A d \in swept : (d \notin g) \in StillThere(TRUE)}}

\* process_folder, lines 168-170: sweep the *_temp directories left, report
\* the end of the batch
FinalCleanup ==
    /\ pc = "final"
    /\ LET scratch == {TempDirName(b) : b \in DOMAIN temp_dirs}
       IN \E left \in cleanup_remaining_temp_dirs(temp_dirs, kept \ scratch) :
             /\ temp_dirs' = left.dirs
             /\ kept' = {d \in kept :
                             \/ d \in left.others
                             \/ \E b \in DOMAIN temp_dirs :
                                   TempDirName(b) = d /\ left.dirs[b].exists}
    /\ status' = Append(status, Msg("complete", 0))
    /\ pc' = "returned"
    /\ UNCHANGED <<factoryVars, zipVars, procVars, utilVars>>
    /\ UNCHANGED <<listing, suffix, files, idx, progress, archives, writes,
                   cleanup_calls, outcomes, prior, entered, contents>>

Next == FindFiles \/ ProcessFile \/ CleanupFile \/ FinalCleanup

Spec == Init /\ [][Next]_vars

----------------------------------------------------------------------------
(* The factory driven by its callers *)

\* file names handed to the factory
FileNames ==
    { <<"a",".","p","d","f">>,
      <<"a",".","P","D","F">>,
      <<"a",".","t","x","t">>,
      <<"b",".","d","o","c","x">>,
      <<"b",".","D","o","c","X">>,
      <<"c",".","x","m","l">>,
      <<"d",".","b","i","n">>,
      <<"e",".","c","s","v">>,
      <<"f",".","d","u","m","m","y">>,
      <<"R","E","A","D","M","E">>,
      <<".","t","x","t">>,
      <<"g",".","t","a","r",".","j","s","o","n">> }

FactoryInit ==
    /\ processor_classes = DefaultProcessorClasses
    /\ pandoc_installed = "None"
    /\ pandoc_present \in BOOLEAN
    /\ created = NoCall
    /\ ZipIdle
    /\ ProcIdle
    /\ BatchIdle
    /\ UtilIdle

\* a caller registers a processor class
RegisterProcessor ==
    \E c \in RegistrableClasses :
        /\ processor_classes' = register_processor(processor_classes, c)
        /\ UNCHANGED <<pandoc_installed, pandoc_present, created>>
        /\ UNCHANGED <<zipVars, procVars, batchVars, utilVars>>

\* a caller asks for the processor of a file; the call is recorded with the
\* registry it saw
CreateProcessor ==
    \E name \in FileNames :
        LET file_path == join(InputFolder, name)
            r == create_processor(file_path, processor_classes,
                                  pandoc_installed, pandoc_present)
        IN /\ created' = [path |-> file_path, cls |-> r.cls,
                          classes |-> processor_classes]
           /\ pandoc_installed' = r.cache
           /\ UNCHANGED <<processor_classes, pandoc_present>>
           /\ UNCHANGED <<zipVars, procVars, batchVars, utilVars>>

FactoryNext == RegisterProcessor \/ CreateProcessor

FactorySpec == FactoryInit /\ [][FactoryNext]_vars

----------------------------------------------------------------------------
(* Claims about the registry and the dispatcher *)

\* the positions of the registry whose class declares ext
Claimants(classes, ext) ==
    {i \in DOMAIN classes :
        \E k \in DOMAIN get_supported_extensions(classes[i]) :
            get_supported_extensions(classes[i])[k] = ext}

\* the extension create_processor looks up for the recorded call
CreatedExt == lower(splitext(created.path)[2])

\* C8: when the external conversion tool is not installed, create_processor
\* never returns PandocProcessor.
C8_NoPandocWhenUnavailable ==
    (created # NoCall /\ ~pandoc_present) => created.cls # "PandocProcessor"

\* C9 as stated: an extension declared by several registered classes
\* resolves, in get_all_supported_extensions and in create_processor, to the
\* first-registered class declaring it.
C9_FirstRegistrationWins ==
    /\ \A ext \in DOMAIN get_all_supported_extensions(processor_classes) :
          \A i \in Claimants(processor_classes, ext) :
              (\A j \in Claimants(processor_classes, ext) : i <= j)
                  => get_all_supported_extensions(processor_classes)[ext]
                        = processor_classes[i]
    /\ (created # NoCall /\ Claimants(created.classes, CreatedExt) # {})
          => \A i \in Claimants(created.classes, CreatedExt) :
                (\A j \in Claimants(created.classes, CreatedExt) : i <= j)
                    => created.cls = created.classes[i]

\* C9 amended: an extension declared by several registered classes resolves,
\* in get_all_supported_extensions and in create_processor, to the
\* last-registered class declaring it (a later registration takes it over).
C9_LastRegistrationWins ==
    /\ DOMAIN get_all_supported_extensions(processor_classes)
          = {ext \in DOMAIN get_all_supported_extensions(processor_classes) :
                Claimants(processor_classes, ext) # {}}
    /\ \A ext \in DOMAIN get_all_supported_extensions(processor_classes) :
          \A i \in Claimants(processor_classes, ext) :
              (\A j \in Claimants(processor_classes, ext) : j <= i)
                  => get_all_supported_extensions(processor_classes)[ext]
                        = processor_classes[i]
    /\ (created # NoCall /\ Claimants(created.classes, CreatedExt) # {})
          => \A i \in Claimants(created.classes, CreatedExt) :
                (\A j \in Claimants(created.classes, CreatedExt) : j <= i)
                    => created.cls = created.classes[i]

\* C9 witness: a file whose extension two registered classes declare was
\* dispatched, and the later class got it.
C9_Witness ==
    /\ created # NoCall
    /\ Cardinality(Claimants(created.classes, CreatedExt)) >= 2
    /\ created.cls \in {"AltPdfProcessor", "AltTextProcessor"}

\* C10: create_processor returns exactly one processor for every path: a
\* registered class declaring the lower-cased extension if there is one,
\* otherwise PandocProcessor if is_supported_format accepts the path,
\* otherwise SimpleProcessor.
C10_DispatchTotal ==
    created # NoCall =>
        IF Claimants(created.classes, CreatedExt) # {}
        THEN \E i \in Claimants(created.classes, CreatedExt) :
                created.cls = created.classes[i]
        ELSE IF pandoc_installed = "True" /\ CreatedExt \in supported_by_pandoc_for_us
             THEN created.cls = "PandocProcessor"
             ELSE created.cls = "SimpleProcessor"

\* C10 witness: a file no registered class declares and the external
\* converter does not accept fell through to SimpleProcessor.
C10_Witness ==
    /\ created # NoCall
    /\ Claimants(created.classes, CreatedExt) = {}
    /\ ~(pandoc_installed = "True" /\ CreatedExt \in supported_by_pandoc_for_us)
    /\ created.cls = "SimpleProcessor"

----------------------------------------------------------------------------
(* create_zip_package driven over every file-system state *)

FactoryIdle ==
    /\ processor_classes = DefaultProcessorClasses
    /\ pandoc_installed = "None"
    /\ pandoc_present = FALSE
    /\ created = NoCall

\* the entries of an archive that was at the path before the call
OldEntries == << <<"o","l","d",".","m","d">>, METADATA_JSON >>

\* md_filename_in_zip of line 139
Arcnames ==
    {ZipNameBase(n, sfx) \o <<".","m","d">> : n \in BatchNames, sfx \in Suffixes}

ZipInit ==
    /\ zip_file \in {"absent", "old"}
    /\ zip_entries = (IF zip_file = "old" THEN OldEntries ELSE <<>>)
    /\ markdown_arcname \in Arcnames
    /\ path_sep \in {"/", "\\"}
    /\ markdown_file \in {"absent", "empty", "text"}
    /\ metadata_file \in {"None", "absent", "present"}
    /\ media_folder \in MediaFolders
    /\ zip_ret = NoZipCall
    /\ FactoryIdle
    /\ ProcIdle
    /\ BatchIdle
    /\ UtilIdle

\* one call of create_zip_package on the current files
CreateZipPackage ==
    \E faults \in ZipFaults :
        LET r == create_zip_package(zip_file, markdown_file, metadata_file,
                                    media_folder, faults)
        IN /\ zip_file' = r.zip
           /\ zip_ret' = [ret |-> r.ret, before |-> zip_file, faults |-> faults]
           /\ zip_entries' =
                 LET full == namelist(zip_entries, markdown_arcname, metadata_file,
                                      media_folder, path_sep)
                 IN IF r.zip = "new" THEN full
                    ELSE IF r.zip = "partial" /\ ~faults.open_fails
                         THEN SubSeq(full, 1, faults.fail_at - 1)
                    ELSE IF r.zip = "absent" THEN <<>>
                    ELSE zip_entries
           /\ UNCHANGED <<markdown_file, metadata_file, media_folder,
                          markdown_arcname, path_sep>>
           /\ UNCHANGED <<factoryVars, procVars, batchVars, utilVars>>

ZipNext == CreateZipPackage

ZipSpec == ZipInit /\ [][ZipNext]_vars

\* C3 as stated: whenever create_zip_package returns False, no file exists
\* at the archive path afterwards, whatever was there before.
C3_NoFileAfterFalse ==
    zip_ret.ret = "False" => zip_file = "absent"

\* C3 amended: whenever create_zip_package returns False, the archive path
\* holds nothing written by the call: after an error while building the
\* archive no file exists at the path, and after the rejection of an absent
\* or zero-byte Markdown file the path is as it was before the call.
C3_NoArchiveWrittenAfterFalse ==
    zip_ret.ret = "False" =>
        IF markdown_file \in {"absent", "empty"}
        THEN zip_file = zip_ret.before
        ELSE zip_file = "absent"

\* C3 witness: a write failed part-way while an older archive was at the
\* path, the call returned False and the path is empty.
C3_Witness ==
    /\ zip_ret.ret = "False"
    /\ zip_ret.before = "old"
    /\ zip_ret.faults.fail_at >= 2
    /\ ~zip_ret.faults.open_fails
    /\ markdown_file = "text"
    /\ zip_file = "absent"

----------------------------------------------------------------------------
(* process() of every processor class driven over its inputs *)

\* extensions process() is called with: those the class declares, those
\* is_supported_format adds, and one nobody declares
UnknownExt == <<".","b","i","n">>

ProcExts(cls) ==
    {get_supported_extensions(cls)[k] : k \in DOMAIN get_supported_extensions(cls)}
        \cup (IF cls = "PandocProcessor" THEN supported_by_pandoc_for_us ELSE {})
        \cup (IF cls = "SimpleProcessor" THEN {UnknownExt, <<>>} ELSE {})

\* a call about to be made: the class, the file's extension, the environment
PendingCalls ==
    UNION {
        {[cls |-> cls, ext |-> ext, env |-> env, called |-> FALSE,
          md |-> "None", error |-> FALSE, raised |-> FALSE] :
            ext \in ProcExts(cls), env \in ProcEnvs} :
        cls \in {DefaultProcessorClasses[k] : k \in DOMAIN DefaultProcessorClasses}}

ProcInit ==
    /\ result \in PendingCalls
    /\ FactoryIdle
    /\ ZipIdle
    /\ BatchIdle
    /\ UtilIdle

\* the pending process() call of class cls runs
ProcessCall(cls) ==
    /\ result.cls = cls
    /\ ~result.called
    /\ LET r == Process(cls, result.ext, result.env)
       IN result' = [result EXCEPT !.called = TRUE, !.md = r.md,
                                    !.error = r.error, !.raised = r.raised]
    /\ UNCHANGED <<factoryVars, zipVars, batchVars, utilVars>>

ProcessPdf == ProcessCall("PDFProcessor")
ProcessMarkdown == ProcessCall("MarkdownProcessor")
ProcessPowerPoint == ProcessCall("PowerPointProcessor")
ProcessExcelCsv == ProcessCall("ExcelCsvProcessor")
ProcessSimple == ProcessCall("SimpleProcessor")
ProcessPandoc == ProcessCall("PandocProcessor")

ProcNext ==
    \/ ProcessPdf
    \/ ProcessMarkdown
    \/ ProcessPowerPoint
    \/ ProcessExcelCsv
    \/ ProcessSimple
    \/ ProcessPandoc

ProcSpec == ProcInit /\ [][ProcNext]_vars

\* process() returned a pair
Returned == result.called /\ ~result.raised

----------------------------------------------------------------------------
(* Claims about process_folder *)

\* the status callback was given message m about file k
Told(m, k) == \E j \in DOMAIN status : status[j] = Msg(m, k)

\* the pipeline of file k is over and the loop has left it
Left(k) ==
    /\ k \in DOMAIN outcomes
    /\ outcomes[k] # ""
    /\ \/ idx > k
       \/ pc \in {"final", "returned", "aborted"}

\* C1: an exception raised while file i is dispatched or processed is caught
\* at the per-file boundary: file i is reported as failed and process_folder
\* goes on with the later files instead of ending.
C1_ExceptionContained ==
    \A k \in DOMAIN outcomes :
        outcomes[k] = "raised" => /\ Told("failed", k)
                                  /\ pc # "aborted"

\* C2: once the pipeline of a file has ended, whatever its outcome, and the
\* loop has left that file, safe_remove_directory was called on its scratch
\* directory.
C2_CleanupAlways ==
    \A k \in DOMAIN outcomes : Left(k) => k \in cleanup_calls

\* C5: two distinct files of a batch never share an archive path or a scratch
\* directory, and when process_folder is over the archives in the output
\* folder are as many as the files reported as successfully processed.
C5_OneArchivePerSuccess ==
    /\ \A a, b \in DOMAIN files :
          a # b => ZipNameBase(files[a], suffix) # ZipNameBase(files[b], suffix)
    /\ pc \in {"returned", "aborted"} =>
          Cardinality({b \in DOMAIN archives : archives[b].state = "new"})
             = Cardinality({k \in DOMAIN files : Told("success", k)})

\* C6: whenever process_folder is over, the last status message it gave is
\* the one that reports the end of the batch.
C6_BatchCompletes ==
    pc \in {"returned", "aborted"} =>
        /\ pc = "returned"
        /\ status # <<>>
        /\ status[Len(status)] = Msg("complete", 0)

\* C7: when the processor of file k answered null Markdown,
\* process_file_and_package wrote no Markdown file, no metadata file and no
\* archive and returned False, both failure messages were given, and the loop
\* went on to the cleanup of file k and from there to the next file.
C7_NullMarkdownFails ==
    \A k \in DOMAIN outcomes :
        outcomes[k] = "null" =>
            /\ \A w \in writes : w.file # k
            /\ Told("failed_to_process", k)
            /\ Told("failed", k)
            /\ ~Told("success", k)
            /\ idx = k => pc \in {"cleanup", "final", "returned"}
            /\ (idx = k /\ pc # "cleanup") => /\ k = Len(files)
                                              /\ k \in cleanup_calls
            /\ idx > k => k \in cleanup_calls

\* a file answered null Markdown and the file after it was processed too
C7_Witness ==
    \E k \in DOMAIN outcomes :
        /\ outcomes[k] = "null"
        /\ k + 1 \in DOMAIN outcomes
        /\ outcomes[k + 1] # ""

\* C11: when the processor of a file is dispatched, the scratch directory of
\* that file holds nothing but its empty media folder: no Markdown or metadata
\* file of an earlier file, nothing from before the call.
C11_ScratchFresh ==
    \A k \in DOMAIN outcomes :
        outcomes[k] # "" => entered[k] = [NoDir EXCEPT !.exists = TRUE]

\* C20: every directory that was in the output folder before process_folder
\* was called is still there, whatever its name: neither the cleanup after a
\* file nor the final sweep removed it.
C20_OnlyOwnScratchRemoved == kept = prior

\* C21: a file for which process() answers the empty string never yields an
\* archive: the Markdown file written is empty, create_zip_package refuses
\* it, no archive is written for the file, and the file is told as failed,
\* never as a success
C21_EmptyMarkdownFails ==
    \A k \in DOMAIN contents :
        contents[k] = "empty" =>
            /\ outcomes[k] \in {"md_write_failed", "packaging_failed"}
            /\ [file |-> k, kind |-> "zip"] \notin writes
            /\ \A b \in DOMAIN archives : archives[b].source # k
            /\ Told("failed", k)
            /\ ~Told("success", k)

\* the empty Markdown file was written and refused, and the batch went on
C21_Witness ==
    \E k \in DOMAIN contents :
        /\ contents[k] = "empty"
        /\ outcomes[k] = "packaging_failed"
        /\ [file |-> k, kind |-> "md"] \in writes
        /\ pc = "returned"

----------------------------------------------------------------------------
(* Claims about the entries of the archive *)

\* the arcname the claim gives the k-th media file: media/<relative path>
\* with forward slashes
ExpectedMediaEntry(k) == MEDIA \o <<"/">> \o relpath(MediaFile(k), "/")

\* C12: after create_zip_package returned True the archive holds exactly the
\* Markdown file under markdown_arcname, metadata.json if and only if a
\* metadata path was given and exists, and media/<relative path> for every
\* file under the media folder, each once; no entry of an archive that was at
\* the path before remains.
C12_ExactEntries ==
    zip_ret.ret = "True" =>
        LET n == IF media_folder.kind = "dir" THEN media_folder.files ELSE 0
            names == {zip_entries[k] : k \in DOMAIN zip_entries}
        IN /\ names = {markdown_arcname}
                        \cup (IF metadata_file = "present" THEN {METADATA_JSON} ELSE {})
                        \cup {ExpectedMediaEntry(k) : k \in 1..n}
           /\ Len(zip_entries) = Cardinality(names)
           /\ \A k \in DOMAIN OldEntries :
                 OldEntries[k] \in names => OldEntries[k] = METADATA_JSON
                                            /\ metadata_file = "present"

\* an archive was at the path, the platform separates with a backslash, and
\* the call packed metadata and a media file of a subfolder
C12_Witness ==
    /\ zip_ret.ret = "True"
    /\ zip_ret.before = "old"
    /\ path_sep = "\\"
    /\ metadata_file = "present"
    /\ media_folder.kind = "dir"
    /\ media_folder.files >= 2
    /\ Len(zip_entries) = 2 + media_folder.files

----------------------------------------------------------------------------
(* Claims about the archives of a batch *)

\* C13: every archive process_file_and_package produced holds a metadata.json
\* entry with the whole mapping the processor returned for that file, also
\* when writing the metadata file failed.
C13_ArchiveHasMetadata ==
    \A b \in DOMAIN archives :
        archives[b].state = "new" => archives[b].metadata = "complete"

\* C16: progress_callback is called exactly once per file, in file order,
\* after that file's outcome status and the deletion of its scratch directory,
\* with (index+1)/total*100: the k-th value is k*100/total, the values rise
\* strictly within 0..100, and once process_folder is over there is one value
\* per file, the last being 100
C16_ProgressPerFile ==
    /\ \A k \in DOMAIN progress :
          /\ progress[k] = [num |-> k * 100, den |-> Len(files)]
          /\ k \in cleanup_calls
          /\ Told("success", k) \/ Told("failed", k)
          /\ 0 < progress[k].num /\ progress[k].num <= 100 * progress[k].den
          /\ k > 1 => progress[k - 1].num * progress[k].den
                          < progress[k].num * progress[k - 1].den
    /\ (pc \in {"returned", "aborted"} /\ files # <<>>) =>
          /\ Len(progress) = Len(files)
          /\ progress[Len(progress)].num = 100 * progress[Len(progress)].den

----------------------------------------------------------------------------
(* Image references: MarkdownProcessor._process_local_images and           *)
(* ImageProcessor.update_markdown_with_processed_images                    *)

\* most image references in a text
MaxRefs == 2

RECURSIVE str_replace(_, _, _)
\* str.replace(old, new): every occurrence, left to right, without overlap
str_replace(s, old, new) ==
    IF s = <<>> THEN <<>>
    ELSE IF startswith(s, old)
         THEN new \o str_replace(SubSeq(s, Len(old) + 1, Len(s)), old, new)
         ELSE <<Head(s)>> \o str_replace(Tail(s), old, new)

HTTP == <<"h","t","t","p",":","/","/">>
HTTPS == <<"h","t","t","p","s",":","/","/">>
DATA == <<"d","a","t","a",":">>
PARENT == <<".",".","/">>
HERE == <<".","/">>
PNG_EXT == <<".","p","n","g">>

\* os.path.isabs where os.sep is "/"
isabs(path) == startswith(path, <<"/">>)

\* line 69: the references _process_local_images passes over
skipped(img_path) ==
    \/ startswith(img_path, HTTP)
    \/ startswith(img_path, HTTPS)
    \/ startswith(img_path, DATA)
    \/ isabs(img_path)

\* flat_img_name without the replacement of os.sep
flat_img_name_keep_sep(img_path) ==
    LET flat == str_replace(str_replace(img_path, PARENT, <<>>), HERE, <<>>)
    IN IF splitext(flat)[2] = <<>> THEN flat \o PNG_EXT ELSE flat

\* flat_img_name of lines 78-81, os.sep being "/"
flat_img_name(img_path) ==
    LET flat == replace(str_replace(str_replace(img_path, PARENT, <<>>), HERE, <<>>),
                        "/", "_")
    IN IF splitext(flat)[2] = <<>> THEN flat \o PNG_EXT ELSE flat

\* new_link of line 88
new_link(img_path) == replace(join(MEDIA, flat_img_name(img_path)), "\\", "/")

RECURSIVE LinkKeys(_, _, _)
\* the keys of updated_links in insertion order: the paths of the Markdown
\* image references that are local, exist as files and were copied
LinkKeys(doc, env, seen) ==
    IF doc = <<>> THEN <<>>
    ELSE LET ref == Head(doc)
             taken == /\ ref.syntax = "md"
                      /\ ~skipped(ref.path)
                      /\ ref.path \in env.exists
                      /\ ref.path \notin env.copy_fails
                      /\ ref.path \notin seen
         IN IF taken
            THEN <<ref.path>> \o LinkKeys(Tail(doc), env, seen \cup {ref.path})
            ELSE LinkKeys(Tail(doc), env, seen)

RECURSIVE sorted_by_len_desc(_)
\* sorted(keys, key=len, reverse=True): stable
sorted_by_len_desc(keys) ==
    IF keys = <<>> THEN <<>>
    ELSE LET longest == CHOOSE k \in DOMAIN keys :
                            /\ \A j \in DOMAIN keys : Len(keys[j]) <= Len(keys[k])
                            /\ \A j \in 1..(k - 1) : Len(keys[j]) < Len(keys[k])
         IN <<keys[longest]>>
              \o sorted_by_len_desc([j \in 1..(Len(keys) - 1) |->
                                        IF j < longest THEN keys[j] ELSE keys[j + 1]])

RECURSIVE SubLinks(_, _)
\* lines 98-113: for each key in turn, re.sub on the Markdown image syntax and
\* on the src of img tags; the patterns match the whole path
SubLinks(paths, keys) ==
    IF keys = <<>> THEN paths
    ELSE SubLinks([k \in DOMAIN paths |->
                      IF paths[k] = Head(keys) THEN new_link(Head(keys)) ELSE paths[k]],
                  Tail(keys))

\* MarkdownProcessor._process_local_images: the references of the text returned
process_local_images(doc, env) ==
    SubLinks([k \in DOMAIN doc |-> doc[k].path],
             sorted_by_len_desc(LinkKeys(doc, env, {})))

\* process_pdf_images, lines 121-146: the path a saved image is relinked to
relink_path(placeholder_path) ==
    LET suggested_name == basename(placeholder_path)
        parts == splitext(suggested_name)
        ext == IF lower(parts[2]) \in {<<".","p","n","g">>, <<".","j","p","g">>, <<".","j","p","e","g">>, <<".","g","i","f">>, <<".","b","m","p">>}
               THEN parts[2] ELSE <<".","p","n","g">>
        save_format == IF lower(ext) \in {<<".","j","p","g">>, <<".","j","p","e","g">>} THEN <<"J","P","E","G">> ELSE <<"P","N","G">>
        final_name == parts[1] \o <<".">> \o lower(save_format)
    IN replace(join(MEDIA, final_name), "\\", "/")

RECURSIVE SubImages(_, _, _, _)
\* update_markdown_with_processed_images, lines 170-192: for each placeholder
\* in turn, pattern.subn on the Markdown image syntax
SubImages(paths, syntax, keys, info) ==
    IF keys = <<>> THEN paths
    ELSE LET key == Head(keys)
             put == CASE info[key] = "remove" -> <<>>
                      [] info[key] = "embed" -> DATA
                      [] info[key] = "relink" -> relink_path(key)
                      [] OTHER -> key
         IN SubImages([k \in DOMAIN paths |->
                          IF paths[k] = key /\ syntax[k] = "md" THEN put ELSE paths[k]],
                      syntax, Tail(keys), info)

RECURSIVE InfoKeys(_)
\* processed_images_info.keys(), in the order of the dict
InfoKeys(placeholders) ==
    IF placeholders = {} THEN <<>>
    ELSE LET first == CHOOSE q \in placeholders : TRUE
         IN <<first>> \o InfoKeys(placeholders \ {first})

\* ImageProcessor.update_markdown_with_processed_images: the references of
\* the text returned, <<>> where the reference was removed
update_markdown_with_processed_images(doc, info) ==
    LET keys == InfoKeys(DOMAIN info)
    IN SubImages([k \in DOMAIN doc |-> doc[k].path], [k \in DOMAIN doc |-> doc[k].syntax],
                 sorted_by_len_desc(keys), info)

\* the paths image references are written with
RefPaths ==
    { <<"h","t","t","p",":","/","/","h","/","p">>,
      <<"d","a","t","a",":","x">>,
      <<"/","p",".","p","n","g">>,
      <<"p",".","p","n","g">>,
      <<"s","/","p",".","p","n","g">>,
      <<".",".","x","/","p">>,
      <<".",".","/",".",".","/","q",".","p","n","g">>,
      <<"m","e","d","i","a","/","q",".","p","n","g">>,
      <<"t","/","i",".","j","p","g">> }

\* the paths of the raw images a PDF extraction leaves in the scratch directory
PlaceholderPaths == { <<"t","/","i",".","j","p","g">> }

\* the references: Markdown image syntax, and one HTML img tag
Refs ==
    [syntax : {"md"}, path : RefPaths]
        \cup {[syntax |-> "html", path |-> <<".",".","/",".",".","/","q",".","p","n","g">>]}

Docs == UNION {[1..n -> Refs] : n \in 1..MaxRefs}

LocalPaths(doc) == {doc[k].path : k \in DOMAIN doc} \ {q \in RefPaths : skipped(q)}

\* a text with image references, and which of their targets are files
RefInit ==
    /\ ref_doc \in Docs
    /\ ref_env \in {[exists |-> e, copy_fails |-> c] :
                      e \in SUBSET LocalPaths(ref_doc), c \in SUBSET LocalPaths(ref_doc)}
    /\ ref_env.copy_fails \subseteq ref_env.exists
    /\ ref_info = <<>>
    /\ ref_out = <<>>
    /\ ref_done = "no"
    /\ DownloadIdle
    /\ NestIdle
    /\ ImgIdle
    /\ FactoryIdle
    /\ ZipIdle
    /\ ProcIdle
    /\ BatchIdle
    /\ LateIdle

\* MarkdownProcessor.process rewrites the local image references
ProcessLocalImages ==
    /\ ref_done = "no"
    /\ ref_out' = process_local_images(ref_doc, ref_env)
    /\ ref_done' = "markdown"
    /\ UNCHANGED <<ref_doc, ref_env, ref_info>>
    /\ UNCHANGED <<factoryVars, zipVars, procVars, batchVars, dlVars, nestVars, imgVars, lateVars>>

\* PDFProcessor.process rewrites the references to the raw images that
\* process_pdf_images handled
UpdateProcessedImages ==
    /\ ref_done = "no"
    /\ \E handled \in SUBSET ({ref_doc[k].path : k \in DOMAIN ref_doc} \cap PlaceholderPaths) :
       \E info \in [handled -> {"remove", "embed", "relink"}] :
          /\ ref_info' = info
          /\ ref_out' = update_markdown_with_processed_images(ref_doc, info)
    /\ ref_done' = "images"
    /\ UNCHANGED <<ref_doc, ref_env>>
    /\ UNCHANGED <<factoryVars, zipVars, procVars, batchVars, dlVars, nestVars, imgVars, lateVars>>

RefNext == ProcessLocalImages \/ UpdateProcessedImages

RefSpec == RefInit /\ [][RefNext]_vars

IsRemote(path) == startswith(path, HTTP) \/ startswith(path, HTTPS)

IsDataUri(path) == startswith(path, DATA)

\* media/<flat-filename>: one name under media/, without a path separator
IsMediaFlat(path) ==
    /\ startswith(path, MEDIA \o <<"/">>)
    /\ Len(path) > Len(MEDIA) + 1
    /\ \A k \in (Len(MEDIA) + 2)..Len(path) : path[k] \notin {"/", "\\"}

HasDotDot(path) == \E k \in 1..(Len(path) - 1) : path[k] = "." /\ path[k + 1] = "."

\* the paths _process_local_images put into updated_links
Copied ==
    {q \in ref_env.exists \ ref_env.copy_fails :
        /\ ~skipped(q)
        /\ \E k \in DOMAIN ref_doc : ref_doc[k] = [syntax |-> "md", path |-> q]}

----------------------------------------------------------------------------
(* External images of an HTML file: configuration -> PandocProcessor ->    *)
(* PandocUtils._predownload_external_images -> _download_images_parallel   *)

\* most unique external image URLs in a file
MaxUrls == 2

\* _download_images_parallel(max_workers=5)
max_workers == 5

\* self.config.get("image_download_timeout", 120) in PandocProcessor.process
PROCESSOR_DEFAULT_TIMEOUT == 120

\* options.get('image_download_timeout', 90) in _predownload_external_images
UTILS_DEFAULT_TIMEOUT == 90

\* the seconds the user may type into the timeout field
UI_TIMEOUT == 30

\* dict.get(key, default)
dict_get(d, key, default) == IF key \in DOMAIN d THEN d[key] ELSE default

\* ConverterConfig.__init__: the attributes it sets, each read from the dict
\* or given its default; no other key of the dict is kept
ConverterConfig(config_dict) ==
    [apply_max_res |-> dict_get(config_dict, "apply_max_res", FALSE),
     max_image_res_px |-> dict_get(config_dict, "max_image_res_px", 1200),
     exclude_decorative |-> dict_get(config_dict, "exclude_decorative", FALSE),
     decorative_threshold_px |-> dict_get(config_dict, "decorative_threshold_px", 50),
     embed_small_images |-> dict_get(config_dict, "embed_small_images", FALSE),
     small_image_threshold_kb |-> dict_get(config_dict, "small_image_threshold_kb", 50),
     max_rows_display |-> dict_get(config_dict, "max_rows_display", 1000),
     max_columns_display |-> dict_get(config_dict, "max_columns_display", 50),
     pandoc_toc |-> dict_get(config_dict, "pandoc_toc", FALSE)]

\* ConverterConfig.get(key, default): getattr(self, key, default)
config_get(config, key, default) == dict_get(config, key, default)

\* pandoc_options of PandocProcessor.process, lines 43-50
pandoc_options(config) ==
    [images |-> "separate",
     standalone |-> TRUE,
     toc |-> config_get(config, "pandoc_toc", FALSE),
     limit_image_download |-> config_get(config, "limit_image_download", FALSE),
     image_download_timeout |->
        config_get(config, "image_download_timeout", PROCESSOR_DEFAULT_TIMEOUT)]

\* Python's None where a number of seconds is expected; a number t is <<t>>
NoTimeout == <<>>

\* timeout of _predownload_external_images, lines 214-218
download_timeout(options) ==
    IF dict_get(options, "limit_image_download", TRUE)
    THEN <<dict_get(options, "image_download_timeout", UTILS_DEFAULT_TIMEOUT)>>
    ELSE NoTimeout

\* the dicts a caller builds: the UI always sets both download keys, with the
\* box ticked unless the user cleared it; a script may leave them out
ConfigDicts ==
    {[k \in keys |-> IF k = "limit_image_download" THEN limit
                     ELSE IF k = "image_download_timeout" THEN UI_TIMEOUT
                     ELSE toc] :
        keys \in {{}, {"pandoc_toc"}, {"limit_image_download", "image_download_timeout"},
                  {"limit_image_download", "image_download_timeout", "pandoc_toc"}},
        limit \in BOOLEAN, toc \in BOOLEAN}

\* RAGConverter(config) was built and an HTML file with external images is
\* about to be converted
DownloadInit ==
    /\ dl_caller \in {"RAGConverter", "direct"}
    /\ dl_config \in (IF dl_caller = "direct" THEN {<<>>} ELSE ConfigDicts)
    /\ dl_options = <<>>
    /\ dl_timeout = NoTimeout
    /\ \E n \in 1..MaxUrls : dl_hosts \in [1..n -> BOOLEAN]
    /\ dl_requests = [u \in DOMAIN dl_hosts |-> [state |-> "queued", timeout |-> NoTimeout]]
    /\ dl_pc = "process"
    /\ RefIdle
    /\ NestIdle
    /\ ImgIdle
    /\ FactoryIdle
    /\ ZipIdle
    /\ ProcIdle
    /\ BatchIdle
    /\ LateIdle

\* PandocProcessor.process builds pandoc_options from self.config, the
\* ConverterConfig RAGConverter.__init__ made of the dict
BuildPandocOptions ==
    /\ dl_pc = "process"
    /\ dl_caller = "RAGConverter"
    /\ dl_options' = pandoc_options(ConverterConfig(dl_config))
    /\ dl_pc' = "predownload"
    /\ UNCHANGED <<dl_caller, dl_config, dl_timeout, dl_hosts, dl_requests>>
    /\ UNCHANGED <<factoryVars, zipVars, procVars, batchVars, refVars, nestVars, imgVars, lateVars>>

\* the options PandocUtils.convert_file is handed when called by itself:
\* none, or the two download settings
DirectOptions ==
    {<<>>}
      \cup [limit_image_download : BOOLEAN, image_download_timeout : {UI_TIMEOUT}]

\* PandocUtils.convert_file(input_file, output_dir, md_filename, options)
\* called without a PandocProcessor
ConvertFileDirect ==
    /\ dl_pc = "process"
    /\ dl_caller = "direct"
    /\ dl_options' \in DirectOptions
    /\ dl_pc' = "predownload"
    /\ UNCHANGED <<dl_caller, dl_config, dl_timeout, dl_hosts, dl_requests>>
    /\ UNCHANGED <<factoryVars, zipVars, procVars, batchVars, refVars, nestVars, imgVars, lateVars>>

\* _predownload_external_images settles the timeout and starts the pool
PredownloadExternalImages ==
    /\ dl_pc = "predownload"
    /\ dl_timeout' = download_timeout(dl_options)
    /\ dl_pc' = "download"
    /\ UNCHANGED <<dl_caller, dl_config, dl_options, dl_hosts, dl_requests>>
    /\ UNCHANGED <<factoryVars, zipVars, procVars, batchVars, refVars, nestVars, imgVars, lateVars>>

\* max_workers = min(max_workers, len(image_urls)), line 318
pool_size(n) == IF max_workers < n THEN max_workers ELSE n

\* a worker of the pool issues requests.get(url, timeout=timeout)
RequestsGet ==
    /\ dl_pc = "download"
    /\ \E u \in DOMAIN dl_requests :
          /\ dl_requests[u].state = "queued"
          /\ Cardinality({v \in DOMAIN dl_requests : dl_requests[v].state = "waiting"})
                < pool_size(Len(dl_requests))
          /\ dl_requests' = [dl_requests EXCEPT ![u] =
                                [state |-> "waiting", timeout |-> dl_timeout]]
    /\ UNCHANGED <<dl_caller, dl_config, dl_options, dl_timeout, dl_hosts, dl_pc>>
    /\ UNCHANGED <<factoryVars, zipVars, procVars, batchVars, refVars, nestVars, imgVars, lateVars>>

\* the host answers
Response ==
    /\ \E u \in DOMAIN dl_requests :
          /\ dl_requests[u].state = "waiting"
          /\ dl_hosts[u]
          /\ dl_requests' = [dl_requests EXCEPT ![u].state = "answered"]
    /\ UNCHANGED <<dl_caller, dl_config, dl_options, dl_timeout, dl_hosts, dl_pc>>
    /\ UNCHANGED <<factoryVars, zipVars, procVars, batchVars, refVars, nestVars, imgVars, lateVars>>

\* requests.exceptions.Timeout: only a request with a timeout can time out
RequestTimeout ==
    /\ \E u \in DOMAIN dl_requests :
          /\ dl_requests[u].state = "waiting"
          /\ dl_requests[u].timeout # NoTimeout
          /\ dl_requests' = [dl_requests EXCEPT ![u].state = "timed_out"]
    /\ UNCHANGED <<dl_caller, dl_config, dl_options, dl_timeout, dl_hosts, dl_pc>>
    /\ UNCHANGED <<factoryVars, zipVars, procVars, batchVars, refVars, nestVars, imgVars, lateVars>>

\* as_completed has yielded every future: the pool is left
DownloadsCompleted ==
    /\ dl_pc = "download"
    /\ \A u \in DOMAIN dl_requests : dl_requests[u].state \in {"answered", "timed_out"}
    /\ dl_pc' = "done"
    /\ UNCHANGED <<dl_caller, dl_config, dl_options, dl_timeout, dl_hosts, dl_requests>>
    /\ UNCHANGED <<factoryVars, zipVars, procVars, batchVars, refVars, nestVars, imgVars, lateVars>>

DownloadNext ==
    \/ BuildPandocOptions
    \/ ConvertFileDirect
    \/ PredownloadExternalImages
    \/ RequestsGet
    \/ Response
    \/ RequestTimeout
    \/ DownloadsCompleted

DownloadSpec == DownloadInit /\ [][DownloadNext]_vars

\* limit_image_download is on: the dict says so, or leaves it to the default
LimitOn == dict_get(dl_config, "limit_image_download", TRUE)

\* C15: with limit_image_download on, every requests.get issued for an
\* external image of the file carries a timeout, so that no request can wait
\* for ever on a host that never answers.
C15_RequestsHaveTimeout ==
    (dl_caller = "RAGConverter" /\ LimitOn) =>
        \A u \in DOMAIN dl_requests :
            dl_requests[u].state # "queued" => dl_requests[u].timeout # NoTimeout

----------------------------------------------------------------------------
\* FileUtils.cleanup_nested_media_folders (utils/file_utils.py)

\* the most entries media/media/ holds
MaxNested == 2

\* the name of the media folder, and so of the nested one inside it
NESTED_NAME == "media"

\* names the entries of media/ and of media/media/ are drawn from
ParentNames == {"a.png", "sub"}

NestedNames == {"a.png", "b.png", "sub", NESTED_NAME}

\* the listings of a folder: each entry a file or a directory, marked with
\* the folder it was in at first
Entries(names, from) ==
    UNION {[S -> [kind : {"file", "dir"}, from : {from}]] : S \in SUBSET names}

\* the output directories: media/ absent, a file, or a directory, and inside
\* it media/media/ absent, a file, or a directory with its own entries
NestDirs ==
    [media : {"absent", "file"}, entries : {<<>>}, nested : {"absent"}, inner : {<<>>}]
      \cup [media : {"dir"}, entries : Entries(ParentNames, "parent"),
            nested : {"absent", "file"}, inner : {<<>>}]
      \cup [media : {"dir"}, entries : Entries(ParentNames, "parent"),
            nested : {"dir"},
            inner : {i \in Entries(NestedNames, "nested") :
                        Cardinality(DOMAIN i) <= MaxNested}]

\* the function leaving media/media/ in place unless it was empty on entry
cleanup_nested_media_folders_rmdir_first(d, env) ==
    IF d.media # "dir" \/ d.nested # "dir" THEN d
    ELSE LET existing_files == DOMAIN d.entries \cup {NESTED_NAME}
             removed == {f \in DOMAIN d.inner :
                            f \in existing_files /\ d.inner[f].kind = "file"
                                                 /\ f \notin env.fails}
             moved == {f \in DOMAIN d.inner :
                          f \notin existing_files /\ f \notin env.fails}
             rest == DOMAIN d.inner \ (removed \cup moved)
         IN [media |-> "dir",
             entries |-> [f \in DOMAIN d.entries \cup moved |->
                             IF f \in moved THEN d.inner[f] ELSE d.entries[f]],
             nested |-> IF DOMAIN d.inner = {} /\ ~env.rmdir_fails
                        THEN "absent" ELSE "dir",
             inner |-> [f \in rest |-> d.inner[f]]]

\* cleanup_nested_media_folders(output_dir) on directory d, where the entries
\* of env.fails cannot be removed or moved: nothing is done unless media/ and
\* media/media/ are directories; existing_files is the listing of media/,
\* which holds the nested folder itself; a nested entry whose name is in it
\* is deleted with os.remove, which raises for a directory; any other entry
\* is moved up; media/media/ is removed if nothing is left in it
cleanup_nested_media_folders(d, env) ==
    IF d.media # "dir" THEN d
    ELSE IF d.nested # "dir" THEN d
    ELSE LET existing_files == DOMAIN d.entries \cup {NESTED_NAME}
             removed == {f \in DOMAIN d.inner :
                            f \in existing_files /\ d.inner[f].kind = "file"
                                                 /\ f \notin env.fails}
             moved == {f \in DOMAIN d.inner :
                          f \notin existing_files /\ f \notin env.fails}
             rest == DOMAIN d.inner \ (removed \cup moved)
         IN [media |-> "dir",
             entries |-> [f \in DOMAIN d.entries \cup moved |->
                             IF f \in moved THEN d.inner[f] ELSE d.entries[f]],
             nested |-> IF rest = {} /\ ~env.rmdir_fails THEN "absent" ELSE "dir",
             inner |-> [f \in rest |-> d.inner[f]]]

\* an output directory as a conversion left it, and the entries that are
\* locked for as long as the directory is looked at
NestInit ==
    /\ nest_before \in NestDirs
    /\ nest_env \in [fails : SUBSET DOMAIN nest_before.inner, rmdir_fails : BOOLEAN]
    /\ nest_dir = nest_before
    /\ nest_once = <<>>
    /\ nest_runs = 0
    /\ RefIdle
    /\ DownloadIdle
    /\ ImgIdle
    /\ FactoryIdle
    /\ ZipIdle
    /\ ProcIdle
    /\ BatchIdle
    /\ LateIdle

\* process_file_and_package, line 94: the call after process()
CleanupNestedMediaFolders ==
    /\ nest_runs = 0
    /\ nest_dir' = cleanup_nested_media_folders(nest_dir, nest_env)
    /\ nest_once' = nest_dir'
    /\ nest_runs' = 1
    /\ UNCHANGED <<nest_before, nest_env>>
    /\ UNCHANGED <<factoryVars, zipVars, procVars, batchVars, refVars, dlVars, imgVars, lateVars>>

\* the function called again on the directory it left
CleanupNestedMediaFoldersAgain ==
    /\ nest_runs = 1
    /\ nest_dir' = cleanup_nested_media_folders(nest_dir, nest_env)
    /\ nest_runs' = 2
    /\ UNCHANGED <<nest_before, nest_env, nest_once>>
    /\ UNCHANGED <<factoryVars, zipVars, procVars, batchVars, refVars, dlVars, imgVars, lateVars>>

NestNext == CleanupNestedMediaFolders \/ CleanupNestedMediaFoldersAgain

NestSpec == NestInit /\ [][NestNext]_vars

\* os.remove, shutil.move and os.rmdir all succeed where they can
NoFault == nest_env.fails = {} /\ ~nest_env.rmdir_fails

\* C17: after cleanup_nested_media_folders on a directory holding
\* media/media/, with no entry locked: every nested entry whose name media/
\* did not have is directly under media/, every entry media/ had is as it
\* was, and media/media/ is gone, for files and for subdirectories alike
C17_NestedFlattened ==
    (nest_runs >= 1 /\ nest_before.media = "dir" /\ nest_before.nested = "dir"
                    /\ NoFault) =>
        /\ \A f \in DOMAIN nest_before.inner :
              (f \notin DOMAIN nest_before.entries /\ f # NESTED_NAME) =>
                  /\ f \in DOMAIN nest_once.entries
                  /\ nest_once.entries[f] = nest_before.inner[f]
        /\ \A f \in DOMAIN nest_before.entries :
              /\ f \in DOMAIN nest_once.entries
              /\ nest_once.entries[f] = nest_before.entries[f]
        /\ nest_once.nested = "absent"

\* C18: cleanup_nested_media_folders is idempotent: the directory after two
\* calls is the directory after one
C18_Idempotent == nest_runs = 2 => nest_dir = nest_once

\* the first call changed the directory and left entries in media/media/ for
\* the second call to go through
C18_Witness ==
    /\ nest_runs = 2
    /\ nest_once # nest_before
    /\ nest_once.nested = "dir"
    /\ DOMAIN nest_once.inner # {}
    /\ nest_dir = nest_once

----------------------------------------------------------------------------
\* ImageProcessor.process_image (utils/image_utils.py)

JPG_EXT == <<".","j","p","g">>
JPEG_EXT == <<".","j","p","e","g">>

\* the result dict process_image starts from, lines 39-43
DefaultResult ==
    [action |-> "save", bytes |-> "original", format |-> "PNG", data_uri |-> "absent"]

\* process_image with the embedding test before the decorative test
process_image_embed_first(config, image) ==
    LET save_format == IF lower(splitext(image.name)[2]) \in {JPG_EXT, JPEG_EXT}
                       THEN "JPEG" ELSE "PNG"
    IN IF ~image.opens \/ ~image.loads THEN DefaultResult
    ELSE IF /\ dict_get(config, "embed_small_images", FALSE)
            /\ dict_get(config, "small_image_threshold_kb", 0) > 0
            /\ image.saved_len < config["small_image_threshold_kb"] * 1024
    THEN [action |-> "embed", bytes |-> "saved", format |-> save_format,
          data_uri |-> "base64"]
    ELSE IF /\ dict_get(config, "exclude_decorative", FALSE)
            /\ dict_get(config, "decorative_threshold_px", 0) > 0
            /\ image.width < config["decorative_threshold_px"]
            /\ image.height < config["decorative_threshold_px"]
    THEN [DefaultResult EXCEPT !.action = "remove", !.format = save_format]
    ELSE [DefaultResult EXCEPT !.bytes = "saved", !.format = save_format]

\* process_image(image_bytes, filename_suggestion) under config: Image.open
\* reads the header only (image.opens); convert, thumbnail and save decode the
\* pixel data and raise when it cannot be decoded (image.loads); every
\* exception is caught and the result as it stands is returned.  bytes tells
\* what the result holds: the bytes given, the image saved again, or the
\* image resized and saved.
process_image(config, image) ==
    LET save_format == IF image.name # <<>>
                          /\ lower(splitext(image.name)[2]) \in {JPG_EXT, JPEG_EXT}
                       THEN "JPEG" ELSE "PNG"
        converts == save_format = "JPEG" /\ image.mode # "RGB"
        decorative == /\ dict_get(config, "exclude_decorative", FALSE)
                      /\ dict_get(config, "decorative_threshold_px", 0) > 0
                      /\ image.width < config["decorative_threshold_px"]
                      /\ image.height < config["decorative_threshold_px"]
        resizes == /\ dict_get(config, "apply_max_res", FALSE)
                   /\ dict_get(config, "max_image_res_px", 0) > 0
                   /\ \/ image.width > config["max_image_res_px"]
                      \/ image.height > config["max_image_res_px"]
        saved == [DefaultResult EXCEPT !.format = save_format,
                     !.bytes = IF resizes THEN "resized" ELSE "saved"]
        embeds == /\ dict_get(config, "embed_small_images", FALSE)
                  /\ dict_get(config, "small_image_threshold_kb", 0) > 0
                  /\ (IF resizes THEN image.resized_len ELSE image.saved_len)
                        < config["small_image_threshold_kb"] * 1024
    IN IF ~image.opens THEN DefaultResult
       ELSE IF converts /\ ~image.loads THEN DefaultResult
       ELSE IF decorative
       THEN [DefaultResult EXCEPT !.action = "remove", !.format = save_format]
       ELSE IF ~image.loads THEN [DefaultResult EXCEPT !.format = save_format]
       ELSE IF embeds
       THEN [saved EXCEPT !.action = "embed", !.data_uri = "base64"]
       ELSE saved

\* the configurations: a dict with the six image settings, or a dict that
\* leaves settings out
ImageConfigs ==
    [exclude_decorative : BOOLEAN, decorative_threshold_px : {0, 50, 100},
     apply_max_res : BOOLEAN, max_image_res_px : {0, 40},
     embed_small_images : BOOLEAN, small_image_threshold_kb : {0, 1}]
      \cup {<<>>}
      \cup [exclude_decorative : {TRUE}]
      \cup [exclude_decorative : {TRUE}, decorative_threshold_px : {100},
            embed_small_images : {TRUE}, small_image_threshold_kb : {1}]

\* the images: the name suggested (none, .png, .jpg, .JPG), whether the
\* header and the pixel data can be read, the size in pixels, the mode, and
\* the number of bytes the image takes once saved, as it is and resized
Images ==
    [name : {<<>>, <<"i">> \o PNG_EXT, <<"i">> \o JPG_EXT, <<"i",".","J","P","G">>},
     opens : BOOLEAN, loads : BOOLEAN,
     width : {10, 60}, height : {10, 60}, mode : {"RGB", "RGBA"},
     saved_len : {1000, 2000}, resized_len : {900}]

ImgInit ==
    /\ img_config \in ImageConfigs
    /\ img_file \in {i \in Images : i.loads => i.opens}
    /\ img_result = NotProcessed
    /\ RefIdle
    /\ DownloadIdle
    /\ NestIdle
    /\ FactoryIdle
    /\ ZipIdle
    /\ ProcIdle
    /\ BatchIdle
    /\ LateIdle

\* ImageProcessor(config).process_image(image_bytes, filename_suggestion)
ProcessImage ==
    /\ img_result = NotProcessed
    /\ img_result' = process_image(img_config, img_file)
    /\ UNCHANGED <<img_config, img_file>>
    /\ UNCHANGED <<factoryVars, zipVars, procVars, batchVars, refVars, dlVars, nestVars, lateVars>>

ImgNext == ProcessImage

ImgSpec == ImgInit /\ [][ImgNext]_vars

\* the image can be decoded: header and pixel data
Decodable == img_file.opens /\ img_file.loads

\* exclusion is on and both sides of the image are below the threshold set
BelowThreshold ==
    /\ dict_get(img_config, "exclude_decorative", FALSE)
    /\ "decorative_threshold_px" \in DOMAIN img_config
    /\ img_file.width < img_config["decorative_threshold_px"]
    /\ img_file.height < img_config["decorative_threshold_px"]

\* C19: with exclude_decorative on, process_image answers remove for every
\* decodable image whose width and height are both below the threshold,
\* whatever the resize and embed settings, and the image is neither resized
\* nor embedded: the bytes returned are the bytes given and there is no
\* data URI
C19_DecorativeRemoved ==
    (img_result # NotProcessed /\ Decodable /\ BelowThreshold) =>
        /\ img_result.action = "remove"
        /\ img_result.bytes = "original"
        /\ img_result.data_uri = "absent"

\* a small image was removed although the settings would have had it
\* resized and embedded
C19_Witness ==
    /\ img_result.action = "remove"
    /\ Decodable /\ BelowThreshold
    /\ dict_get(img_config, "apply_max_res", FALSE)
    /\ dict_get(img_config, "max_image_res_px", 0) > 0
    /\ img_file.width > img_config["max_image_res_px"]
    /\ dict_get(img_config, "embed_small_images", FALSE)
    /\ dict_get(img_config, "small_image_threshold_kb", 0) > 0
    /\ img_file.resized_len < img_config["small_image_threshold_kb"] * 1024

----------------------------------------------------------------------------
\* RAGConverter._find_supported_files and the dispatch of what it selects

\* most entries of the input folder
MaxListing == 2

\* the files the input folder may hold, in the order os.listdir answers:
\* documents, and files named like lock, temporary, backup and system files
SelNames ==
    << <<"b",".","t","x","t">>,
       <<"~","$","b",".","t","x","t">>,
       <<"~","$","c",".","d","o","c","x">>,
       <<".","~","b",".","p","d","f">>,
       <<"c",".","x","m","l">>,
       <<"b",".","t","m","p">>,
       <<"b",".","p","d","f",".","b","a","k">>,
       <<"T","h","u","m","b","s",".","d","b">>,
       <<".","D","S","_","S","t","o","r","e">> >>

\* what os.listdir may answer: some of the files, in that order
SelListings ==
    UNION {{l \in [1..n -> {SelNames[x] : x \in DOMAIN SelNames}] :
               \A a, b \in 1..n :
                  a < b => \E x, y \in DOMAIN SelNames :
                              /\ SelNames[x] = l[a]
                              /\ SelNames[y] = l[b]
                              /\ x < y} :
           n \in 0..MaxListing}

\* a RAGConverter was constructed and process_folder reads the input folder
SelInit ==
    /\ processor_classes = DefaultProcessorClasses
    /\ pandoc_present \in BOOLEAN
    /\ pandoc_installed = check_installed_locally("None", pandoc_present).cache
    /\ created = NoCall
    /\ sel_listing \in SelListings
    /\ sel_files = <<>>
    /\ sel_handed = 0
    /\ sel_pc = "listed"
    /\ LateIdleBut("sel")
    /\ ZipIdle
    /\ ProcIdle
    /\ BatchIdle
    /\ EarlyUtilIdle

\* process_folder, line 114: files_to_process = self._find_supported_files(...)
SelFindSupportedFiles ==
    /\ sel_pc = "listed"
    /\ LET found == find_supported_files(sel_listing, processor_classes,
                                         pandoc_installed, pandoc_present)
       IN /\ sel_files' = found.files
          /\ pandoc_installed' = found.cache
    /\ sel_pc' = "found"
    /\ UNCHANGED <<processor_classes, pandoc_present, created, sel_listing, sel_handed>>
    /\ UNCHANGED <<zipVars, procVars, batchVars, refVars, dlVars, nestVars, imgVars>>
    /\ UNCHANGED selOthers

\* process_file_and_package, line 70: the next selected file is handed to
\* DocumentProcessorFactory.create_processor
SelCreateProcessor ==
    /\ sel_pc = "found"
    /\ sel_handed < Len(sel_files)
    /\ LET file_path == sel_files[sel_handed + 1]
           made == create_processor(file_path, processor_classes,
                                    pandoc_installed, pandoc_present)
       IN /\ created' = [path |-> file_path, cls |-> made.cls,
                         classes |-> processor_classes]
          /\ pandoc_installed' = made.cache
    /\ sel_handed' = sel_handed + 1
    /\ UNCHANGED <<processor_classes, pandoc_present, sel_listing, sel_files, sel_pc>>
    /\ UNCHANGED <<zipVars, procVars, batchVars, refVars, dlVars, nestVars, imgVars>>
    /\ UNCHANGED selOthers

SelNext == SelFindSupportedFiles \/ SelCreateProcessor

SelSpec == SelInit /\ [][SelNext]_vars

\* C22: in batch mode no file whose name matches the temp, backup or system
\* patterns is selected as eligible or handed to a processor, whatever its
\* extension
C22_TempFilesSkipped ==
    /\ \A k \in DOMAIN sel_files : ~is_common_temp_file(sel_files[k])
    /\ created # NoCall => ~is_common_temp_file(created.path)

----------------------------------------------------------------------------
\* PandocUtils.convert_file on an HTML input (utils/pandoc_utils.py)

\* most img elements of the HTML input
MaxImgs == 3

\* the src values of the model: two external URLs, the second without an
\* extension, and a relative path
URL_A == HTTP \o <<"h","/","a",".","p","n","g">>
URL_B == HTTPS \o <<"h","/","b">>
LOCAL_SRC == <<"p",".","p","n","g">>

Srcs == {URL_A, URL_B, LOCAL_SRC}

\* line 187: src and src.startswith(('http://', 'https://'))
is_external(src) == src # <<>> /\ (startswith(src, HTTP) \/ startswith(src, HTTPS))

\* unique_urls of line 200
unique_urls(imgs) == {imgs[i] : i \in {j \in DOMAIN imgs : is_external(imgs[j])}}

\* hashlib.md5(url.encode()).hexdigest()[:12], stood for by a text that
\* tells the URLs of the model apart
hexdigest12(url) == <<ToString(Len(url))>>

\* what download_single returns for a URL it has a file for, lines 283-295
local_path(url) ==
    LET ext == splitext(url)[2]
        filename == <<"e","x","t","_","i","m","g","_">> \o hexdigest12(url)
                       \o (IF ext = <<>> \/ Len(ext) > 5 THEN JPG_EXT ELSE ext)
    IN MEDIA \o <<"/">> \o filename

\* the URLs of the downloaded dict: a file was written or was there already
downloaded_urls(workers) == {u \in DOMAIN workers : workers[u] \in {"saved", "cached"}}

\* the rewriting loop changing only the first element of each URL
rewrite_first_element(imgs, downloaded) ==
    [i \in DOMAIN imgs |->
        IF imgs[i] \in downloaded /\ \A j \in 1..(i - 1) : imgs[j] # imgs[i]
        THEN local_path(imgs[i]) ELSE imgs[i]]

\* lines 224-235: every element of a downloaded URL gets the local path
rewrite_elements(imgs, downloaded) ==
    [i \in DOMAIN imgs |->
        IF imgs[i] \in downloaded THEN local_path(imgs[i]) ELSE imgs[i]]

\* the pool left as soon as one download has ended
pool_joined_first(workers) ==
    \E u \in DOMAIN workers : workers[u] \notin {"queued", "running"}

\* the with block of lines 321-334 is left: as_completed has yielded every
\* future and ThreadPoolExecutor.__exit__ has waited for every worker
pool_joined(workers) ==
    \A u \in DOMAIN workers : workers[u] \notin {"queued", "running"}

\* lines 224-251 of _predownload_external_images, after the pool: the
\* elements are rewritten and, if one was, the copy is written; write is
\* "ok", "open_fails" or "write_fails" (the file is left half written)
predownload_finish(imgs, workers, copy, write) ==
    LET downloaded == downloaded_urls(workers)
        modified == \E i \in DOMAIN imgs : imgs[i] \in downloaded
    IN [out |-> rewrite_elements(imgs, downloaded),
        copy |-> IF ~modified \/ write = "open_fails" THEN copy
                 ELSE IF write = "ok" THEN "written" ELSE "partial",
        input |-> IF modified /\ write = "ok" THEN "modified" ELSE "original"]

\* os.remove(input_file_to_use) inside try/except
remove_copy(copy, remove_fails) == IF remove_fails THEN copy ELSE "absent"

\* convert_file once _predownload_external_images returned: the dropping of
\* the copy that keeps it when the tool left no output
convert_finish(input, copy, tool, env) ==
    LET is_copy == input = "modified"
    IN IF tool = "raises"
       THEN [ret |-> "None",
             copy |-> IF is_copy THEN remove_copy(copy, env.remove_fails) ELSE copy]
       ELSE IF tool = "no_output"
       THEN [ret |-> "None", copy |-> copy]
       ELSE [ret |-> IF env.post_fails THEN "None" ELSE "path",
             copy |-> IF is_copy THEN remove_copy(copy, env.remove_fails) ELSE copy]

\* convert_file is called on an HTML file that exists
ConvertInit ==
    /\ \E n \in 0..MaxImgs : cv_imgs \in [1..n -> Srcs]
    /\ cv_workers = <<>>
    /\ cv_out = cv_imgs
    /\ cv_copy = "absent"
    /\ cv_input = ""
    /\ cv_tool = ""
    /\ cv_ret = ""
    /\ cv_faults = {}
    /\ cv_pc = "start"
    /\ LateIdleBut("cv")
    /\ FactoryIdle
    /\ ZipIdle
    /\ ProcIdle
    /\ BatchIdle
    /\ EarlyUtilIdle

\* _predownload_external_images up to the pool, lines 163-221: an exception
\* (bs4 missing, the file unreadable) or an HTML without external image
\* returns the input path; else one download_single per unique URL is submitted
CvPredownload ==
    /\ cv_pc = "start"
    /\ \E parse_fails \in BOOLEAN :
          IF parse_fails \/ unique_urls(cv_imgs) = {}
          THEN /\ cv_input' = "original"
               /\ cv_pc' = "pandoc"
               /\ cv_faults' = IF parse_fails THEN {"parse"} ELSE {}
               /\ UNCHANGED cv_workers
          ELSE /\ cv_workers' = [u \in unique_urls(cv_imgs) |-> "queued"]
               /\ cv_pc' = "pool"
               /\ UNCHANGED <<cv_input, cv_faults>>
    /\ UNCHANGED <<cv_imgs, cv_out, cv_copy, cv_tool, cv_ret>>
    /\ UNCHANGED <<earlyVars, cvOthers>>

\* a worker of the pool takes a submitted download_single
CvDownloadStart ==
    /\ \E u \in DOMAIN cv_workers :
          /\ cv_workers[u] = "queued"
          /\ Cardinality({v \in DOMAIN cv_workers : cv_workers[v] = "running"})
                < pool_size(Cardinality(DOMAIN cv_workers))
          /\ cv_workers' = [cv_workers EXCEPT ![u] = "running"]
    /\ UNCHANGED <<cv_imgs, cv_out, cv_copy, cv_input, cv_tool, cv_ret, cv_faults, cv_pc>>
    /\ UNCHANGED <<earlyVars, cvOthers>>

\* download_single returns: the file was there, was written, or the
\* request failed or timed out
CvDownloadEnd ==
    /\ \E u \in DOMAIN cv_workers :
          /\ cv_workers[u] = "running"
          /\ \E how \in {"cached", "saved", "failed", "timed_out"} :
                cv_workers' = [cv_workers EXCEPT ![u] = how]
    /\ UNCHANGED <<cv_imgs, cv_out, cv_copy, cv_input, cv_tool, cv_ret, cv_faults, cv_pc>>
    /\ UNCHANGED <<earlyVars, cvOthers>>

\* the pool is left and _predownload_external_images runs to its return
CvPoolJoined ==
    /\ cv_pc = "pool"
    /\ pool_joined(cv_workers)
    /\ \E write \in {"ok", "open_fails", "write_fails"} :
          LET done == predownload_finish(cv_imgs, cv_workers, cv_copy, write)
          IN /\ cv_out' = done.out
             /\ cv_copy' = done.copy
             /\ cv_input' = done.input
             /\ cv_faults' = IF done.out # cv_imgs /\ write # "ok"
                             THEN {"write"} ELSE {}
    /\ cv_pc' = "pandoc"
    /\ UNCHANGED <<cv_imgs, cv_workers, cv_tool, cv_ret>>
    /\ UNCHANGED <<earlyVars, cvOthers>>

\* pypandoc.convert_file runs on input_file_to_use and convert_file goes on
\* to its return, lines 98-155
CvPandoc ==
    /\ cv_pc = "pandoc"
    /\ \E tool \in {"ok", "raises", "no_output"} :
       \E env \in [remove_fails : BOOLEAN, post_fails : BOOLEAN] :
          LET done == convert_finish(cv_input, cv_copy, tool, env)
          IN /\ cv_tool' = tool
             /\ cv_ret' = done.ret
             /\ cv_copy' = done.copy
             /\ cv_faults' = cv_faults
                               \cup (IF env.remove_fails /\ cv_input = "modified"
                                        /\ tool # "no_output"
                                     THEN {"remove"} ELSE {})
                               \cup (IF env.post_fails /\ tool = "ok"
                                     THEN {"post"} ELSE {})
    /\ cv_pc' = "returned"
    /\ UNCHANGED <<cv_imgs, cv_workers, cv_out, cv_input>>
    /\ UNCHANGED <<earlyVars, cvOthers>>

ConvertNext ==
    \/ CvPredownload
    \/ CvDownloadStart
    \/ CvDownloadEnd
    \/ CvPoolJoined
    \/ CvPandoc

ConvertSpec == ConvertInit /\ [][ConvertNext]_vars

\* C23: the external conversion tool is invoked only after every download
\* worker of the pool has ended: when convert_file is about to call the tool,
\* and from then on, no download is queued or running
C23_PoolAwaited ==
    cv_pc \in {"pandoc", "returned"} =>
        \A u \in DOMAIN cv_workers : cv_workers[u] \notin {"queued", "running"}

\* the tool ran after two downloads that ended differently
C23_Witness ==
    /\ cv_tool # ""
    /\ \E u, v \in DOMAIN cv_workers :
          cv_workers[u] = "saved" /\ cv_workers[v] = "timed_out"

\* C24: when convert_file has returned for an HTML input for which the
\* .modified.html copy was created, the copy no longer exists, whether the
\* conversion succeeded, the tool raised, or the tool left no Markdown file
\* (no os.remove having failed)
C24_CopyRemoved ==
    (cv_pc = "returned" /\ cv_input = "modified" /\ "remove" \notin cv_faults) =>
        cv_copy = "absent"

\* C30: _predownload_external_images gives every img element of a downloaded
\* URL the local path and leaves every other element as it was; it returns
\* the .modified.html copy exactly when a URL was downloaded and the copy
\* was written, and the input path otherwise
C30_RewriteAndReturn ==
    cv_input # "" =>
        /\ \A i \in DOMAIN cv_imgs :
              cv_out[i] = IF cv_imgs[i] \in downloaded_urls(cv_workers)
                          THEN local_path(cv_imgs[i]) ELSE cv_imgs[i]
        /\ cv_input = "modified" <=>
              /\ downloaded_urls(cv_workers) # {}
              /\ cv_faults \cap {"write", "parse"} = {}
        /\ cv_input = "modified" => cv_copy = "written" \/ cv_pc = "returned"

\* one URL held by two elements was downloaded, another was not, and the
\* copy was returned
C30_Witness ==
    /\ cv_input = "modified"
    /\ \E i, j \in DOMAIN cv_imgs :
          i # j /\ cv_imgs[i] = cv_imgs[j] /\ cv_imgs[i] \in downloaded_urls(cv_workers)
    /\ \E u \in DOMAIN cv_workers : cv_workers[u] = "failed"

----------------------------------------------------------------------------
\* file_utils.safe_remove_directory, attempt by attempt

\* what one shutil.rmtree call does: it removes the directory, raises
\* PermissionError, or raises another OSError (EBUSY "Device or resource
\* busy" is one: Python has no class of its own for it)
RmtreeResults == {"ok", "PermissionError", "OSError"}

\* the number of rmtree calls in a log
Attempts(log) == Cardinality({i \in DOMAIN log : log[i] = "rmtree"})

\* a loop that sleeps before every attempt
attempt_events_sleep_first(attempt) == <<"sleep", "rmtree">>

\* lines 29-32: what the attempt numbered attempt (from 0) does before rmtree
\* answers
attempt_events(attempt) == IF attempt > 0 THEN <<"sleep", "rmtree">> ELSE <<"rmtree">>

\* lines 33-43: where the loop goes after rmtree answered on the attempt
\* numbered attempt: "True" and "False" are returns, "loop" the next attempt
after_attempt(attempt, res) ==
    IF res = "ok" THEN "True"
    ELSE IF res = "PermissionError"
         THEN IF attempt + 1 < max_attempts THEN "loop" ELSE "False"
         ELSE "False"

\* safe_remove_directory is called with the default max_attempts and delay
RmInit ==
    /\ rm_plan \in [1..max_attempts -> RmtreeResults]
    /\ rm_existed \in BOOLEAN
    /\ rm_exists = rm_existed
    /\ rm_log = <<>>
    /\ rm_ret = ""
    /\ rm_pc = "call"
    /\ LateIdleBut("rm")
    /\ FactoryIdle
    /\ ZipIdle
    /\ ProcIdle
    /\ BatchIdle
    /\ EarlyUtilIdle

\* lines 23-26: a path that does not exist returns True at once
RmCall ==
    /\ rm_pc = "call"
    /\ IF ~rm_exists
       THEN rm_ret' = "True" /\ rm_pc' = "returned"
       ELSE rm_pc' = "loop" /\ UNCHANGED rm_ret
    /\ UNCHANGED <<rm_plan, rm_existed, rm_exists, rm_log>>
    /\ UNCHANGED <<earlyVars, rmOthers>>

\* one pass of the loop of lines 28-40
RmAttempt ==
    /\ rm_pc = "loop"
    /\ LET attempt == Attempts(rm_log)
           res == rm_plan[attempt + 1]
           next == after_attempt(attempt, res)
       IN /\ rm_log' = rm_log \o attempt_events(attempt)
          /\ rm_exists' = (res # "ok")
          /\ IF next = "loop"
             THEN UNCHANGED <<rm_ret, rm_pc>>
             ELSE rm_ret' = next /\ rm_pc' = "returned"
    /\ UNCHANGED <<rm_plan, rm_existed>>
    /\ UNCHANGED <<earlyVars, rmOthers>>

RmNext ==
    \/ RmCall
    \/ RmAttempt

\* the caller's thread goes on running
RmSpec == RmInit /\ [][RmNext]_vars /\ WF_vars(RmNext)

\* the kinds of failure the claim calls transient
Transient == {"PermissionError", "OSError"}

\* an attempt within the budget would succeed after transient failures only
WouldSucceed ==
    \E k \in 2..max_attempts :
        /\ rm_plan[k] = "ok"
        /\ \A j \in 1..(k - 1) : rm_plan[j] \in Transient

\* C26: if the directory is there, removal attempts fail with a permission
\* error or a resource-busy error, and a later attempt within max_attempts
\* would succeed, safe_remove_directory returns True with the directory gone
C26_TransientRetried ==
    (rm_pc = "returned" /\ rm_existed /\ WouldSucceed) =>
        rm_ret = "True" /\ ~rm_exists

\* what C27 says of every state of a call
C27_Bounded ==
    /\ Attempts(rm_log) <= max_attempts
    /\ rm_pc = "loop" => Attempts(rm_log) < max_attempts
    /\ \A i \in DOMAIN rm_log :
          rm_log[i] = "sleep" =>
              /\ i > 1 /\ rm_log[i - 1] = "rmtree"
              /\ i < Len(rm_log) /\ rm_log[i + 1] = "rmtree"
    /\ rm_pc = "returned" =>
          /\ rm_ret \in {"True", "False"}
          /\ rm_ret = "True" <=>
                \/ ~rm_existed
                \/ \E k \in 1..Attempts(rm_log) : rm_plan[k] = "ok"
          /\ rm_ret = "True" => ~rm_exists

\* C27: safe_remove_directory makes at most max_attempts removal attempts
\* and then returns, sleeps only between two attempts, answers True or False
\* without raising, and answers True exactly when the directory was not
\* there at the call or an attempt removed it
C27_TerminatesBounded == []C27_Bounded /\ <>(rm_pc = "returned")

\* the third attempt removed the directory after two permission errors
C27_Witness ==
    /\ rm_pc = "returned"
    /\ rm_ret = "True"
    /\ rm_log = <<"rmtree", "sleep", "rmtree", "sleep", "rmtree">>

----------------------------------------------------------------------------
\* PDFProcessor.process and its scratch directory (processors/pdf_processor.py)

\* max_attempts of _cleanup_temp_files
pdf_max_attempts == 3

\* a loop that goes round once more
cleanup_after_attempt_once_more(attempt, res) ==
    IF res = "PermissionError" /\ attempt + 1 < pdf_max_attempts + 1 THEN "loop" ELSE "done"

\* lines 146-160: where the loop of _cleanup_temp_files goes after rmtree
\* answered on the attempt numbered attempt (from 0): it breaks on success
\* and on any exception but PermissionError
cleanup_after_attempt(attempt, res) ==
    IF res = "PermissionError" /\ attempt + 1 < pdf_max_attempts THEN "loop" ELSE "done"

\* lines 148-150: the delay comes before every attempt but the first
cleanup_events(attempt) == IF attempt > 0 THEN <<"sleep", "rmtree">> ELSE <<"rmtree">>

\* lines 56-70: what process answers for what _extract_pdf_content answered
\* and for whether the image handling raises
process_pdf(md, images_raise) ==
    IF md \in {"None", "empty"} THEN "error: Failed to extract PDF content"
    ELSE IF images_raise THEN "error: exception"
    ELSE "content"

\* process is called; the output directory may hold the scratch
\* subdirectory already. rmtree is planned one call further than the loop
\* can go
PdfInit ==
    /\ pdf_plan \in [1..(pdf_max_attempts + 1) -> RmtreeResults]
    /\ pdf_dir \in BOOLEAN
    /\ pdf_md = ""
    /\ pdf_log = <<>>
    /\ pdf_ret = ""
    /\ pdf_pc = "call"
    /\ LateIdleBut("pdf")
    /\ FactoryIdle
    /\ ZipIdle
    /\ ProcIdle
    /\ BatchIdle
    /\ EarlyUtilIdle

\* lines 51-52: os.makedirs(temp_images_dir, exist_ok=True), outside the try
PdfMakedirs ==
    /\ pdf_pc = "call"
    /\ \E makedirs_fails \in BOOLEAN :
          IF makedirs_fails
          THEN pdf_pc' = "raised" /\ UNCHANGED pdf_dir
          ELSE pdf_pc' = "body" /\ pdf_dir' = TRUE
    /\ UNCHANGED <<pdf_plan, pdf_md, pdf_log, pdf_ret>>
    /\ UNCHANGED <<earlyVars, pdfOthers>>

\* lines 54-70: the try block and its handler; _extract_pdf_content
\* answers None for an exception of its own (lines 129-131)
PdfBody ==
    /\ pdf_pc = "body"
    /\ \E md \in {"text", "empty", "None"}, images_raise \in BOOLEAN :
          /\ pdf_md' = md
          /\ pdf_ret' = process_pdf(md, images_raise)
    /\ pdf_pc' = IF pdf_dir THEN "cleanup" ELSE "returned"
    /\ UNCHANGED <<pdf_plan, pdf_dir, pdf_log>>
    /\ UNCHANGED <<earlyVars, pdfOthers>>

\* one pass of the loop of _cleanup_temp_files, run by the finally clause
PdfCleanupAttempt ==
    /\ pdf_pc = "cleanup"
    /\ LET attempt == Attempts(pdf_log)
           res == pdf_plan[attempt + 1]
       IN /\ pdf_log' = pdf_log \o cleanup_events(attempt)
          /\ pdf_dir' = (res # "ok")
          /\ pdf_pc' = IF cleanup_after_attempt(attempt, res) = "loop"
                       THEN "cleanup" ELSE "returned"
    /\ UNCHANGED <<pdf_plan, pdf_md, pdf_ret>>
    /\ UNCHANGED <<earlyVars, pdfOthers>>

PdfNext ==
    \/ PdfMakedirs
    \/ PdfBody
    \/ PdfCleanupAttempt

PdfSpec == PdfInit /\ [][PdfNext]_vars

\* C25: when PDFProcessor.process has returned, with content, for an empty
\* extraction or for an exception, rmtree of the scratch subdirectory was
\* called at least once and at most three times, the subdirectory is gone
\* unless every call failed, and process raises only where makedirs did,
\* before any cleanup
C25_ScratchCleaned ==
    /\ pdf_pc = "returned" =>
          /\ Attempts(pdf_log) \in 1..3
          /\ (\E k \in 1..Attempts(pdf_log) : pdf_plan[k] = "ok") => ~pdf_dir
          /\ pdf_dir => \A k \in 1..Attempts(pdf_log) : pdf_plan[k] # "ok"
    /\ pdf_pc = "raised" => pdf_log = <<>>

\* an empty extraction was answered with an error and the third rmtree
\* call removed the subdirectory
C25_Witness ==
    /\ pdf_pc = "returned"
    /\ pdf_md = "None"
    /\ pdf_ret = "error: Failed to extract PDF content"
    /\ Attempts(pdf_log) = 3
    /\ ~pdf_dir

----------------------------------------------------------------------------
\* ExcelCsvProcessor on a regular .csv file (processors/excel_csv_processor.py)

\* the stages of the full parse, in the order of lines 371-431
Strategies == <<"strict", "skip_bad_lines", "python_engine", "lenient">>

\* the metadata of a result: the error key and parsing_strategy, "" where
\* the key is missing
CsvMeta(error, strategy) == [error |-> error, parsing_strategy |-> strategy]

\* where the full parse goes after the stage last in tried answered: each
\* except block holds the next stage, the last one returns
after_stage(tried, ok) ==
    IF ok THEN "render" ELSE IF Len(tried) < Len(Strategies) THEN "ladder" ELSE "all_failed"

\* lines 424-431: the answer when the fourth stage raised
all_failed_result == [md |-> "error_page", meta |-> CsvMeta(TRUE, "")]

\* lines 432-504 and 86-91: the answer once a stage returned a frame
render_csv(strategy, empty, render_fails) ==
    IF empty THEN [md |-> "empty_page", meta |-> CsvMeta(TRUE, "")]
    ELSE IF render_fails THEN [md |-> "None", meta |-> CsvMeta(TRUE, "")]
    ELSE [md |-> "table", meta |-> CsvMeta(FALSE, strategy)]

\* process is called on a regular .csv file with pandas installed
CsvInit ==
    /\ csv_plan \in [ok : [DOMAIN Strategies -> BOOLEAN],
                      candidate : BOOLEAN, empty : BOOLEAN]
    /\ csv_tried = <<>>
    /\ csv_strategy = ""
    /\ csv_md = ""
    /\ csv_meta = <<>>
    /\ csv_pc = "detect"
    /\ LateIdleBut("csv")
    /\ FactoryIdle
    /\ ZipIdle
    /\ ProcIdle
    /\ BatchIdle
    /\ EarlyUtilIdle

\* lines 330-366: the scoring of encodings and separators; with no pair
\* that parses, ValueError is raised and process answers it (lines 86-91)
CsvDetect ==
    /\ csv_pc = "detect"
    /\ IF csv_plan.candidate
       THEN csv_pc' = "ladder" /\ UNCHANGED <<csv_md, csv_meta>>
       ELSE /\ csv_md' = "None"
            /\ csv_meta' = CsvMeta(TRUE, "")
            /\ csv_pc' = "returned"
    /\ UNCHANGED <<csv_plan, csv_tried, csv_strategy>>
    /\ UNCHANGED <<earlyVars, csvOthers>>

\* one stage of the full parse, lines 371-431
CsvStage ==
    /\ csv_pc = "ladder"
    /\ LET stage == Len(csv_tried) + 1
           tried == Append(csv_tried, Strategies[stage])
           next == after_stage(tried, csv_plan.ok[stage])
       IN /\ csv_tried' = tried
          /\ csv_strategy' = IF csv_plan.ok[stage] THEN Strategies[stage] ELSE csv_strategy
          /\ IF next = "all_failed"
             THEN /\ csv_md' = all_failed_result.md
                  /\ csv_meta' = all_failed_result.meta
                  /\ csv_pc' = "returned"
             ELSE /\ csv_pc' = next
                  /\ UNCHANGED <<csv_md, csv_meta>>
    /\ UNCHANGED csv_plan
    /\ UNCHANGED <<earlyVars, csvOthers>>

\* lines 432-504: the frame becomes the answer; an exception of the
\* rendering is answered by process
CsvRender ==
    /\ csv_pc = "render"
    /\ \E render_fails \in BOOLEAN :
          LET done == render_csv(csv_strategy, csv_plan.empty, render_fails)
          IN csv_md' = done.md /\ csv_meta' = done.meta
    /\ csv_pc' = "returned"
    /\ UNCHANGED <<csv_plan, csv_tried, csv_strategy>>
    /\ UNCHANGED <<earlyVars, csvOthers>>

CsvNext ==
    \/ CsvDetect
    \/ CsvStage
    \/ CsvRender

CsvSpec == CsvInit /\ [][CsvNext]_vars

\* C28: the full parse tries strict, skip_bad_lines, python_engine and
\* lenient in that order and stops at the first stage that succeeds; when
\* process answers a table, metadata parsing_strategy is that stage; when
\* all four stages failed, process answers null Markdown with an error key
C28_FallbackLadder ==
    /\ csv_tried = SubSeq(Strategies, 1, Len(csv_tried))
    /\ \A i \in 1..(Len(csv_tried) - 1) : ~csv_plan.ok[i]
    /\ csv_strategy # "" =>
          /\ csv_strategy = csv_tried[Len(csv_tried)]
          /\ csv_plan.ok[Len(csv_tried)]
    /\ (csv_pc = "returned" /\ csv_md = "table") =>
          csv_meta.parsing_strategy = csv_strategy
    /\ (csv_pc = "returned" /\ csv_tried = Strategies /\ ~csv_plan.ok[4]) =>
          csv_md = "None" /\ csv_meta.error

----------------------------------------------------------------------------
\* PowerPointProcessor.process_powerpoint_file (processors/powerpoint_processor.py)

\* most slides of a presentation
MaxSlides == 2

\* the step of a slide's processing that raises: none, get_slide_title,
\* extract_slide_text, the saving of one of its images, extract_slide_notes
SlideFaults == {"none", "title", "text", "image", "notes"}

Decks == UNION {[1..n -> SlideFaults] : n \in 0..MaxSlides}

\* lines 117-165, one pass of the loop over the slides: only the handling
\* of a shape's image lies in a try block of its own (lines 130-158), which
\* logs the exception and goes on; any other exception leaves the loop
process_slide(fault) ==
    IF fault = "none" THEN "rendered"
    ELSE IF fault = "image" THEN "rendered_without_image"
    ELSE "raise"

\* process_powerpoint_file is called on a .pptx file
PptInit ==
    /\ ppt_deck \in Decks
    /\ ppt_opened = FALSE
    /\ ppt_done = <<>>
    /\ ppt_md = ""
    /\ ppt_error = ""
    /\ ppt_pc = "call"
    /\ LateIdleBut("ppt")
    /\ FactoryIdle
    /\ ZipIdle
    /\ ProcIdle
    /\ BatchIdle
    /\ EarlyUtilIdle

\* lines 80-114: the import, Presentation(file_path) and the metadata.
\* get_presentation_title reads the title of the first slide where the
\* file's properties hold none (lines 186-194)
PptOpen ==
    /\ ppt_pc = "call"
    /\ \E how \in {"ok", "import_fails", "open_fails"}, has_title \in BOOLEAN :
          LET title_raises == /\ ~has_title
                              /\ ppt_deck # <<>>
                              /\ ppt_deck[1] = "title"
          IN IF how = "import_fails"
             THEN /\ ppt_md' = "None"
                  /\ ppt_error' = "Missing dependency: python-pptx"
                  /\ ppt_pc' = "returned"
                  /\ UNCHANGED ppt_opened
             ELSE IF how = "open_fails" \/ title_raises
             THEN /\ ppt_md' = "None"
                  /\ ppt_error' = "exception"
                  /\ ppt_pc' = "returned"
                  /\ ppt_opened' = (how = "ok")
             ELSE /\ ppt_opened' = TRUE
                  /\ ppt_pc' = "slides"
                  /\ UNCHANGED <<ppt_md, ppt_error>>
    /\ UNCHANGED <<ppt_deck, ppt_done>>
    /\ UNCHANGED <<earlyVars, pptOthers>>

\* one pass of the loop of lines 117-165; an exception raised out of it
\* is answered by the handler of lines 175-181
PptSlide ==
    /\ ppt_pc = "slides"
    /\ Len(ppt_done) < Len(ppt_deck)
    /\ LET how == process_slide(ppt_deck[Len(ppt_done) + 1])
       IN IF how = "raise"
          THEN /\ ppt_md' = "None"
               /\ ppt_error' = "exception"
               /\ ppt_pc' = "returned"
               /\ UNCHANGED ppt_done
          ELSE /\ ppt_done' = Append(ppt_done, how)
               /\ UNCHANGED <<ppt_md, ppt_error, ppt_pc>>
    /\ UNCHANGED <<ppt_deck, ppt_opened>>
    /\ UNCHANGED <<earlyVars, pptOthers>>

\* lines 167-173: the sections are joined and answered
PptFinish ==
    /\ ppt_pc = "slides"
    /\ Len(ppt_done) = Len(ppt_deck)
    /\ ppt_md' = "markdown"
    /\ ppt_pc' = "returned"
    /\ UNCHANGED <<ppt_deck, ppt_opened, ppt_done, ppt_error>>
    /\ UNCHANGED <<earlyVars, pptOthers>>

PptNext ==
    \/ PptOpen
    \/ PptSlide
    \/ PptFinish

PptSpec == PptInit /\ [][PptNext]_vars

\* C29: when the presentation was opened, an exception raised while one
\* slide is processed (its title, its text, one of its images, its notes)
\* does not end the file: every slide is gone through and the answer is
\* non-null Markdown without an error key
C29_SlideErrorsInline ==
    (ppt_pc = "returned" /\ ppt_opened) =>
        /\ ppt_md = "markdown"
        /\ ppt_error = ""
        /\ Len(ppt_done) = Len(ppt_deck)

====
